---- MODULE Spec2Model ----
(***************************************************************************)
(* A model of the pictogram resolution and cache engine of CarlsCalendar   *)
(* (backend/src/services/pictograms.rs and its route handlers): the        *)
(* local-first resolver, the asset materializer, the bookmark tracker and  *)
(* the idle prefetch scheduler.                                            *)
(*                                                                         *)
(* Text values (queries, language tags, category names, stored token       *)
(* texts) are sequences of one-character strings, so that trimming,        *)
(* lower-casing, splitting and matching are computed as the code computes  *)
(* them.                                                                   *)
(***************************************************************************)
EXTENDS Integers, Sequences, FiniteSets, TLC

(***************************************************************************)
(* Bounds of the model.                                                    *)
(***************************************************************************)
\* Pictogram ids known to the origin are 1..MaxId.
MaxId == 2
MaxNow == 120
IntervalSeconds == 60
MaxSaved == 2
MaxUses == 2

(***************************************************************************)
(* Text helpers.                                                           *)
(***************************************************************************)
\* Optional values: None, or Some(v) with the value Get(o).
None == <<>>
Some(v) == <<v>>
Get(o) == o[1]

\* ASCII code of the characters the model uses (Rust compares strings bytewise).
Code(c) ==
    CASE c = " " -> 32 [] c = "*" -> 42 [] c = "+" -> 43 [] c = "-" -> 45
      [] c = "." -> 46 [] c = "1" -> 49 [] c = "2" -> 50
      [] c = "A" -> 65 [] c = "B" -> 66 [] c = "E" -> 69 [] c = "N" -> 78
      [] c = "S" -> 83 [] c = "_" -> 95
      [] c = "a" -> 97 [] c = "b" -> 98 [] c = "c" -> 99 [] c = "d" -> 100
      [] c = "e" -> 101 [] c = "g" -> 103 [] c = "i" -> 105 [] c = "l" -> 108
      [] c = "n" -> 110 [] c = "o" -> 111 [] c = "p" -> 112 [] c = "r" -> 114
      [] c = "s" -> 115 [] c = "t" -> 116 [] c = "u" -> 117 [] c = "z" -> 122
      [] c = "|" -> 124
      [] OTHER -> 63

IsWhitespace(c) == c = " "
IsAsciiUpper(c) == Code(c) >= 65 /\ Code(c) <= 90
IsAsciiLower(c) == Code(c) >= 97 /\ Code(c) <= 122
IsAsciiDigit(c) == Code(c) >= 48 /\ Code(c) <= 57
IsAsciiAlphanumeric(c) == IsAsciiUpper(c) \/ IsAsciiLower(c) \/ IsAsciiDigit(c)

\* char::to_ascii_lowercase on the model's alphabet.
LowerChar(c) ==
    CASE c = "A" -> "a" [] c = "B" -> "b" [] c = "E" -> "e" [] c = "N" -> "n"
      [] c = "S" -> "s" [] OTHER -> c

ToLower(s) == [i \in 1..Len(s) |-> LowerChar(s[i])]

RECURSIVE TrimStart(_)
TrimStart(s) == IF s # <<>> /\ IsWhitespace(Head(s)) THEN TrimStart(Tail(s)) ELSE s

RECURSIVE TrimEnd(_)
TrimEnd(s) ==
    IF s # <<>> /\ IsWhitespace(s[Len(s)]) THEN TrimEnd(SubSeq(s, 1, Len(s) - 1)) ELSE s

\* str::trim
Trim(s) == TrimEnd(TrimStart(s))

StartsWith(h, q) == Len(q) <= Len(h) /\ SubSeq(h, 1, Len(q)) = q

\* str::contains
Contains(h, q) == \E i \in 0..(Len(h) - Len(q)) : SubSeq(h, i + 1, i + Len(q)) = q

\* Bytewise string order (a < b).
RECURSIVE StrLess(_, _)
StrLess(a, b) ==
    IF b = <<>> THEN FALSE
    ELSE IF a = <<>> THEN TRUE
    ELSE IF Code(Head(a)) # Code(Head(b)) THEN Code(Head(a)) < Code(Head(b))
    ELSE StrLess(Tail(a), Tail(b))

\* Vec::join(sep) on a sequence of texts.
RECURSIVE JoinWith(_, _)
JoinWith(parts, sep) ==
    IF parts = <<>> THEN <<>>
    ELSE IF Len(parts) = 1 THEN parts[1]
    ELSE parts[1] \o sep \o JoinWith(Tail(parts), sep)

\* str::split_whitespace: the maximal runs of non-whitespace characters.
RECURSIVE SplitWs(_, _)
SplitWs(s, cur) ==
    IF s = <<>> THEN (IF cur = <<>> THEN <<>> ELSE <<cur>>)
    ELSE IF IsWhitespace(Head(s))
         THEN (IF cur = <<>> THEN <<>> ELSE <<cur>>) \o SplitWs(Tail(s), <<>>)
         ELSE SplitWs(Tail(s), Append(cur, Head(s)))

SplitWhitespace(s) == SplitWs(s, <<>>)

Bar2 == <<"|", "|">>

\* str::split("||"): the pieces between occurrences of "||" (empty ones kept).
RECURSIVE SplitBars(_, _)
SplitBars(s, cur) ==
    IF s = <<>> THEN <<cur>>
    ELSE IF StartsWith(s, Bar2) THEN <<cur>> \o SplitBars(SubSeq(s, 3, Len(s)), <<>>)
    ELSE SplitBars(Tail(s), Append(cur, Head(s)))

\* Keep the elements of a sequence of texts that are not empty after trimming, trimmed.
RECURSIVE TrimmedNonEmpty(_)
TrimmedNonEmpty(parts) ==
    IF parts = <<>> THEN <<>>
    ELSE (IF Trim(Head(parts)) = <<>> THEN <<>> ELSE <<Trim(Head(parts))>>)
         \o TrimmedNonEmpty(Tail(parts))

split_tokens(s) == TrimmedNonEmpty(SplitBars(s, <<>>))

join_tokens(values) == JoinWith(TrimmedNonEmpty(values), Bar2)

S_en == <<"e", "n">>

normalize_language(language) ==
    LET l == ToLower(Trim(language)) IN IF Len(l) >= 2 THEN l ELSE S_en

S_uncategorized ==
    <<"u", "n", "c", "a", "t", "e", "g", "o", "r", "i", "z", "e", "d">>

RECURSIVE SanitizeChars(_)
SanitizeChars(s) ==
    IF s = <<>> THEN <<>>
    ELSE LET c == Head(s) IN
         (IF IsAsciiAlphanumeric(c) \/ c = "-" \/ c = "_" THEN <<LowerChar(c)>>
          ELSE IF IsWhitespace(c) THEN <<"-">>
          ELSE <<>>) \o SanitizeChars(Tail(s))

RECURSIVE TrimDashes(_)
TrimDashes(s) ==
    IF s # <<>> /\ Head(s) = "-" THEN TrimDashes(Tail(s))
    ELSE IF s # <<>> /\ s[Len(s)] = "-" THEN TrimDashes(SubSeq(s, 1, Len(s) - 1))
    ELSE s

sanitize_segment(input) ==
    LET out == TrimDashes(SanitizeChars(input)) IN
    IF out = <<>> THEN S_uncategorized ELSE out

(***************************************************************************)
(* Pure functions of services/pictograms.rs.                               *)
(***************************************************************************)
\* Insert a text into a sequence sorted ascending without duplicates.
RECURSIVE InsertSorted(_, _)
InsertSorted(sorted, x) ==
    IF sorted = <<>> THEN <<x>>
    ELSE IF Head(sorted) = x THEN sorted
    ELSE IF StrLess(x, Head(sorted)) THEN <<x>> \o sorted
    ELSE <<Head(sorted)>> \o InsertSorted(Tail(sorted), x)

\* out.sort(); out.dedup()
RECURSIVE SortDedup(_)
SortDedup(xs) == IF xs = <<>> THEN <<>> ELSE InsertSorted(SortDedup(Tail(xs)), Head(xs))

\* The candidate texts of the keyword entries, in order: keyword, plural, meaning.
RECURSIVE KeywordCandidates(_)
KeywordCandidates(ks) ==
    IF ks = <<>> THEN <<>>
    ELSE LET k == Head(ks)
         IN k.keyword \o k.plural \o k.meaning
            \o KeywordCandidates(Tail(ks))

extract_keyword_tokens(p) == SortDedup(TrimmedNonEmpty(KeywordCandidates(p.keywords)))

DEFAULT_LICENSE == "CC BY-NC-SA 4.0 (ARASAAC / Gobierno de Aragon; author Sergio Palao)"

build_remote_png_url(arasaac_id) == [kind |-> "png500", id |-> arasaac_id]

SvgUrl(arasaac_id) == [kind |-> "svg", id |-> arasaac_id]

First(xs) == IF xs = <<>> THEN None ELSE Some(xs[1])

remote_to_dto(language, p) ==
    [arasaac_id |-> p.id,
     keywords |-> extract_keyword_tokens(p),
     category |-> First(p.categories),
     categories |-> p.categories,
     tags |-> p.tags,
     language |-> language,
     image_url |-> Some(build_remote_png_url(p.id)),
     local_file_path |-> None,
     width |-> None,
     height |-> None,
     license |-> DEFAULT_LICENSE,
     description |-> p.desc]

OrEmpty(o) == IF o = None THEN <<>> ELSE Get(o)

row_to_dto(row) ==
    [arasaac_id |-> row.arasaac_id,
     keywords |-> split_tokens(row.keywords_text),
     category |-> row.category,
     categories |-> split_tokens(OrEmpty(row.categories_text)),
     tags |-> split_tokens(OrEmpty(row.tags_text)),
     language |-> row.language,
     image_url |-> row.image_url,
     local_file_path |-> row.local_file_path,
     width |-> row.width,
     height |-> row.height,
     license |-> row.license,
     description |-> row.description]

\* The row the upsert statement binds for pictogram p.
UpsertRow(language, p, image_url, local_file_path) ==
    [arasaac_id |-> p.id,
     keywords_text |-> join_tokens(extract_keyword_tokens(p)),
     category |-> First(p.categories),
     categories_text |-> Some(join_tokens(p.categories)),
     tags_text |-> Some(join_tokens(p.tags)),
     description |-> p.desc,
     language |-> language,
     image_url |-> image_url,
     local_file_path |-> local_file_path,
     width |-> None,
     height |-> None,
     license |-> DEFAULT_LICENSE]

\* Public asset paths "/assets/pictograms/<slug>/<id>.<ext>" and the disk paths
\* "backend/assets_seed/pictograms/<slug>/<id>.<ext>" they map to.
PUBLIC_PREFIX == "/assets/pictograms/"
STORE_ROOT == "backend/assets_seed/pictograms"

PublicPath(slug, id, ext) == [prefix |-> PUBLIC_PREFIX, slug |-> slug, id |-> id, ext |-> ext]

disk_path_from_public_path(public_path) ==
    IF public_path.prefix = PUBLIC_PREFIX
    THEN Some([root |-> STORE_ROOT, slug |-> public_path.slug, id |-> public_path.id,
               ext |-> public_path.ext])
    ELSE None

\* local_path_exists against the set of files on disk.
local_path_exists(fs, public_path) ==
    LET disk == disk_path_from_public_path(public_path) IN
    IF disk = None THEN FALSE ELSE Get(disk) \in fs

Sp == <<" ">>

Haystack(d) ==
    JoinWith(<<JoinWith(d.keywords, Sp), JoinWith(d.categories, Sp),
               JoinWith(d.tags, Sp), OrEmpty(d.description)>>, Sp)

RECURSIVE CountHits(_, _)
CountHits(tokens, h) ==
    IF tokens = <<>> THEN 0
    ELSE (IF Head(tokens) # <<>> /\ Contains(h, Head(tokens)) THEN 1 ELSE 0)
         + CountHits(Tail(tokens), h)

fuzzy_score(query, haystack) ==
    LET q == ToLower(query)
        h == ToLower(haystack)
    IN IF h = q THEN 1000
       ELSE IF StartsWith(h, q) THEN 700
       ELSE IF Contains(h, q) THEN 400
       ELSE CountHits(SplitWhitespace(q), h) * 80

\* Insert d behind every element whose score is at least its own (a stable sort).
RECURSIVE InsertByScore(_, _, _)
InsertByScore(sorted, d, query) ==
    IF sorted = <<>> THEN <<d>>
    ELSE IF fuzzy_score(query, Haystack(Head(sorted))) >= fuzzy_score(query, Haystack(d))
         THEN <<Head(sorted)>> \o InsertByScore(Tail(sorted), d, query)
         ELSE <<d>> \o sorted

RECURSIVE SortFrom(_, _, _)
SortFrom(items, acc, query) ==
    IF items = <<>> THEN acc
    ELSE SortFrom(Tail(items), InsertByScore(acc, Head(items), query), query)

\* slice::sort_by with the descending score comparison; sort_by is stable.
sort_by_fuzzy_score(items, query) == SortFrom(items, <<>>, query)

FtSpecial == {"+", "-", ">", "<", "(", ")", "~", "*", "\"", "@", "\\"}

RECURSIVE StarTokens(_)
StarTokens(ts) ==
    IF ts = <<>> THEN <<>>
    ELSE (IF Len(Head(ts)) >= 2 THEN <<Head(ts) \o <<"*">>>> ELSE <<>>) \o StarTokens(Tail(ts))

to_fulltext_boolean(query) ==
    LET stripped == [i \in 1..Len(query) |-> IF query[i] \in FtSpecial THEN " " ELSE query[i]]
    IN JoinWith(StarTokens(SplitWhitespace(stripped)), Sp)

\* LIMIT 60 of both local text queries.
QueryLimit == 60

Take(xs, n) == IF Len(xs) <= n THEN xs ELSE SubSeq(xs, 1, n)

RECURSIVE FilterRows(_, _, _)
FilterRows(rows, language, like) ==
    IF rows = <<>> THEN <<>>
    ELSE LET r == Head(rows)
             hit(text) == text # None /\ Contains(ToLower(Get(text)), like)
         IN (IF r.language = language
                /\ (hit(Some(r.keywords_text)) \/ hit(r.categories_text)
                    \/ hit(r.tags_text) \/ hit(r.description))
             THEN <<r>> ELSE <<>>) \o FilterRows(Tail(rows), language, like)

MapDto(rows) == [i \in 1..Len(rows) |-> row_to_dto(rows[i])]

\* rows: the table, most recently updated first (ORDER BY updated_at DESC).
query_local_like(rows, language, query) ==
    MapDto(Take(FilterRows(rows, language, ToLower(query)), QueryLimit))

UsesFullText(query) == ~(Len(query) < 4 \/ to_fulltext_boolean(query) = <<>>)

\* ft: the rows the store's full-text MATCH returns for the boolean expression.
query_local(rows, language, query, ft) ==
    IF ~UsesFullText(query) THEN query_local_like(rows, language, query)
    ELSE IF ft = <<>> THEN query_local_like(rows, language, query)
    ELSE MapDto(Take(ft, QueryLimit))

\* The statements query_local sends: the full-text MATCH, the LIKE scan, or the
\* LIKE scan after a MATCH without rows.
Matching(query, ft) ==
    IF ~UsesFullText(query) THEN "like"
    ELSE IF ft = <<>> THEN "fulltext_then_like"
    ELSE "fulltext"

RowOf(rows, id) ==
    IF \E i \in 1..Len(rows) : rows[i].arasaac_id = id
    THEN Some(rows[CHOOSE i \in 1..Len(rows) : rows[i].arasaac_id = id])
    ELSE None

\* SELECT ... WHERE arasaac_id = ? LIMIT 1
query_local_by_id(rows, id) ==
    IF RowOf(rows, id) = None THEN None ELSE Some(row_to_dto(Get(RowOf(rows, id))))

RECURSIVE query_local_by_ids(_, _)
query_local_by_ids(rows, ids) ==
    IF ids = <<>> THEN <<>>
    ELSE query_local_by_id(rows, Head(ids))
         \o query_local_by_ids(rows, Tail(ids))

\* A variant of RemoveId for a statement that replaces the table's content.
RemoveId_All(rows, id) == <<>>

RemoveId(rows, id) == SelectSeq(rows, LAMBDA r : r.arasaac_id # id)

\* A variant of UpsertInto for a table without the unique key on arasaac_id.
UpsertInto_Append(rows, row) == <<row>> \o rows

\* INSERT ... ON DUPLICATE KEY UPDATE on the unique key arasaac_id; the row's
\* updated_at becomes the newest.
UpsertInto(rows, row) == <<row>> \o RemoveId(rows, row.arasaac_id)

\* AppResult values: errors carry the place that raised them.
\* val: the sequence of records returned (one element for a single record).
Ok(v) == [kind |-> "Ok", val |-> v, from |-> "none"]
Err(kind, from) == [kind |-> kind, val |-> <<>>, from |-> from]

\* fetch_remote_vec: the result for an HTTP exchange with the origin.
\* status: "ok" (2xx with a well-formed list), "not_found" (404),
\* "too_many_requests" (429), "failed" (transport failure, another status, or a
\* malformed body).
fetch_remote_vec(resp) ==
    CASE resp.status = "too_many_requests" -> Err("BadRequest", "origin_rate_limit")
      [] resp.status = "not_found" -> Ok(<<>>)
      [] resp.status = "failed" -> Err("Internal", "origin")
      [] OTHER -> Ok(resp.list)

\* A variant of fetch_remote_by_id that treats an empty answer as a failure.
fetch_remote_by_id_EmptyIsFailure(resp) ==
    LET r == fetch_remote_vec(resp) IN
    IF r.kind # "Ok" THEN r
    ELSE IF r.val = <<>> THEN Err("Internal", "origin")
    ELSE Ok(<<r.val[Len(r.val)]>>)

\* fetch_remote_by_id: list.pop().ok_or(NotFound)
fetch_remote_by_id(resp) ==
    LET r == fetch_remote_vec(resp) IN
    IF r.kind # "Ok" THEN r
    ELSE IF r.val = <<>> THEN Err("NotFound", "origin")
    ELSE Ok(<<r.val[Len(r.val)]>>)

(***************************************************************************)
(* The inputs and the origin.                                              *)
(***************************************************************************)
Ids == 1..MaxId
\* Ids a caller may pass: non-positive ones included.
IdInputs == 0..MaxId

QueryInputs == {<<" ">>, <<"a", " ">>, <<"b">>}
LangInputs == {<<"E", "S">>, <<"e">>}
Roles == {"parent", "child"}

VARIABLES
    pictograms,    \* the pictograms table: its rows, most recently updated first
    files,         \* the asset files on disk (disk paths)
    task,          \* the calls in progress, one per task
    saved,         \* the saved_pictograms table
    library,       \* the rows of visual_support_activity_library with an arasaac_id
    settings,      \* the pictogram_prefetch_settings row with id 1, if any
    now,           \* the wall clock, in seconds
    lastActivity,  \* LAST_PICTOGRAM_ACTIVITY_UNIX, None before its first use
    due,           \* ticks of the worker's interval that have elapsed and are not consumed
    runner,        \* the prefetch worker: its place in the loop and its batch in progress
    env            \* what the environment may do: which failures can happen

vars == <<pictograms, files, task, saved, library, settings, now, lastActivity, due, runner, env>>

Kw(k, pl) == [keyword |-> k, plural |-> pl, meaning |-> None]

\* The keyword entries the origin holds for an id.
OriginKeywords(i) ==
    IF i = 1 THEN <<Kw(Some(<<"a">>), None)>>
    ELSE <<Kw(Some(<<"b">>), Some(<<"a">>))>>

\* The category lists the origin may report for an id: they may change between
\* fetches where the environment allows it.
OriginCategories == IF env.recategorize THEN {<<>>, <<<<"A">>>>} ELSE {<<<<"A">>>>}

OriginItem(i, cs) ==
    [id |-> i, keywords |-> OriginKeywords(i), categories |-> cs, tags |-> <<>>,
     desc |-> None]

OriginItems(i) == {OriginItem(i, cs) : cs \in OriginCategories}

\* The items a search of the origin may find.
AllOriginItems == UNION {OriginItems(i) : i \in env.origin}

\* The hit lists of a search: items with distinct ids, in any order.
HitLists ==
    {l \in UNION {[1..k -> AllOriginItems] : k \in 0..MaxId} :
        \A i, j \in 1..Len(l) : i # j => l[i].id # l[j].id}

Tasks == {"t1", "t2", "w"}

NoResult == [kind |-> "none", val |-> <<>>, from |-> "none"]
NoAsset == [url |-> None, path |-> None]

IdleTask ==
    [op |-> "none", pc |-> "idle", role |-> "parent", language |-> <<>>, id |-> 0,
     query |-> <<>>, dbReady |-> FALSE, local |-> None, remote |-> <<>>, idx |-> 0,
     existing |-> None, asset |-> NoAsset, svc |-> NoResult, resp |-> NoResult,
     api |-> 0, dl |-> 0, wroteRow |-> FALSE, wroteFile |-> FALSE,
     upsertFailed |-> FALSE, withFile |-> FALSE, hit |-> FALSE, origin |-> "none",
     via |-> "route",
     user |-> "", label |-> None, body |-> None, stamp |-> None, matching |-> "none",
     batch |-> None]

\* Outcomes of a statement sent to the store: TRUE when it succeeds.
DbOutcomes == IF env.dbFaults THEN {TRUE, FALSE} ELSE {TRUE}

HttpStatuses ==
    IF env.netFaults THEN {"ok", "not_found", "too_many_requests", "failed"} ELSE {"ok"}

\* What the origin may answer to fetch-by-id.
ByIdResponses(id) ==
    {[status |-> "ok", list |-> <<p>>] : p \in OriginItems(id)}
    \cup {[status |-> st, list |-> <<>>] : st \in HttpStatuses}

\* The origin's last answer as the call saw it.
Answer(resp) == IF resp.status = "ok" /\ resp.list = <<>> THEN "empty" ELSE resp.status

\* What the origin may answer to a keyword search.
SearchResponses ==
    {[status |-> "ok", list |-> l] : l \in HitLists}
    \cup {[status |-> st, list |-> <<>>] : st \in HttpStatuses \ {"ok"}}

SvgOutcomes ==
    {"svg", "no_svg"}
    \cup (IF env.fsFaults THEN {"mkdir_failed", "write_failed", "write_partial"} ELSE {})

PngOutcomes ==
    {"png"}
    \cup (IF env.netFaults THEN {"non_success", "transport_failed"} ELSE {})
    \cup (IF env.fsFaults THEN {"write_failed", "write_partial"} ELSE {})

RECURSIVE PickRows(_, _, _)
PickRows(rows, i, I) ==
    IF i > Len(rows) THEN <<>>
    ELSE (IF i \in I THEN <<rows[i]>> ELSE <<>>) \o PickRows(rows, i + 1, I)

\* What the store's MATCH ... AGAINST may return: rows of the language, chosen by
\* the store's full-text index.
FullTextAnswers(rows, language, query) ==
    IF ~UsesFullText(query) THEN {<<>>}
    ELSE {PickRows(rows, 1, I) :
            I \in SUBSET {i \in 1..Len(rows) : rows[i].language = language}}

\* A variant of the disk path that leaves the category directory out.
DiskFile_Flat(slug, id, ext) ==
    [root |-> STORE_ROOT, slug |-> S_uncategorized, id |-> id, ext |-> ext]

\* download_pictogram_asset: the file "{dir}/{arasaac_id}.{ext}" it writes
DiskFile(slug, id, ext) == [root |-> STORE_ROOT, slug |-> slug, id |-> id, ext |-> ext]

CategorySlug(p) ==
    sanitize_segment(IF p.categories = <<>> THEN S_uncategorized ELSE p.categories[1])

(***************************************************************************)
(* Route handlers and the resolver, one action per suspension point.       *)
(***************************************************************************)
\* mark_activity(): activity_clock().store(now)
mark_activity == lastActivity' = Some(now)

\* What the route handler answers for the service's result.
RouteResponse(op, r) ==
    CASE op \in {"search", "newest", "keywords"} -> (IF r.kind = "Ok" THEN r ELSE Ok(<<>>))
      [] op = "byId" -> (IF r.kind = "Ok" THEN r ELSE Err("NotFound", "route"))
      [] OTHER -> r

\* The service returns r: the handler answers and the call is over.
Finish(tr, r) ==
    [tr EXCEPT !.pc = "done", !.svc = r,
               !.resp = IF tr.via = "route" THEN RouteResponse(tr.op, r) ELSE r,
               !.local = None, !.existing = None, !.asset = NoAsset, !.idx = 0]

Upd(t, r) == task' = [task EXCEPT ![t] = r]

Lang(tr) == normalize_language(tr.language)

\* GET /pictograms/search/{language}/{query}
StartSearch(t) ==
    /\ task[t].pc = "idle"
    /\ "search" \in env.ops
    /\ \E role \in env.roles, language \in env.langs, query \in QueryInputs :
        LET tr == [IdleTask EXCEPT !.op = "search", !.role = role,
                                   !.language = language, !.query = query]
        IN Upd(t, IF role = "child"
                  THEN [tr EXCEPT !.pc = "done", !.resp = Ok(<<>>)]
                  ELSE [tr EXCEPT !.pc = "ensure"])
    /\ mark_activity
    /\ UNCHANGED <<pictograms, files, saved, library, settings, now, due, runner, env>>

\* GET /pictograms/{language}/id/{arasaac_id}
StartById(t) ==
    /\ task[t].pc = "idle"
    /\ "byId" \in env.ops
    /\ \E role \in env.roles, language \in env.langs, id \in env.ids :
        LET tr == [IdleTask EXCEPT !.op = "byId", !.role = role,
                                   !.language = language, !.id = id]
        IN Upd(t, IF role = "child"
                  THEN [tr EXCEPT !.pc = "done", !.resp = Err("Forbidden", "route")]
                  ELSE [tr EXCEPT !.pc = "ensure"])
    /\ mark_activity
    /\ UNCHANGED <<pictograms, files, saved, library, settings, now, due, runner, env>>

\* GET /pictograms/new
StartNewest(t) ==
    /\ task[t].pc = "idle"
    /\ "newest" \in env.ops
    /\ \E role \in env.roles, language \in env.langs :
        LET tr == [IdleTask EXCEPT !.op = "newest", !.role = role, !.language = language]
        IN Upd(t, IF role = "child"
                  THEN [tr EXCEPT !.pc = "done", !.resp = Ok(<<>>)]
                  ELSE [tr EXCEPT !.pc = "ensure"])
    /\ mark_activity
    /\ UNCHANGED <<pictograms, files, saved, library, settings, now, due, runner, env>>

\* What the origin may answer to the request for a language's keywords.
KeywordResponses ==
    {[status |-> "ok", words |-> ws] : ws \in {<<>>, <<<<"a">>>>}}
    \cup {[status |-> st, words |-> <<>>] : st \in HttpStatuses \ {"ok"}}

\* get_keywords: the result for the HTTP exchange with the origin
get_keywords(resp) ==
    CASE resp.status = "not_found" -> Ok(<<>>)
      [] resp.status \in {"too_many_requests", "failed"} -> Err("Internal", "origin")
      [] OTHER -> Ok(resp.words)

\* GET /pictograms/keywords
GetKeywords(t) ==
    /\ task[t].pc = "idle"
    /\ "keywords" \in env.ops
    /\ \E role \in env.roles, language \in env.langs, resp \in KeywordResponses :
        LET tr == [IdleTask EXCEPT !.op = "keywords", !.role = role, !.language = language]
        IN Upd(t, IF role = "child"
                  THEN [tr EXCEPT !.pc = "done", !.resp = Ok(<<>>)]
                  ELSE Finish([tr EXCEPT !.api = 1, !.origin = resp.status],
                              get_keywords(resp)))
    /\ mark_activity
    /\ UNCHANGED <<pictograms, files, saved, library, settings, now, due, runner, env>>

\* ensure_pictograms_table, then the input checks of the entry points.
EnsureTable(t) ==
    LET tr == task[t] IN
    /\ tr.pc = "ensure"
    /\ \E ok \in DbOutcomes :
        LET t1 == [tr EXCEPT !.dbReady = ok] IN
        IF tr.op = "byId"
        THEN Upd(t, IF tr.id <= 0 THEN Finish(t1, Err("BadRequest", "input"))
                    ELSE IF ok THEN [t1 EXCEPT !.pc = "q_id"]
                    ELSE [t1 EXCEPT !.pc = "fetch_id"])
        ELSE IF tr.op = "newest"
        THEN Upd(t, [t1 EXCEPT !.pc = "fetch_new"])
        ELSE LET t2 == [t1 EXCEPT !.query = Trim(tr.query)] IN
             Upd(t, IF t2.query = <<>> THEN Finish(t2, Err("BadRequest", "input"))
                    ELSE IF ok THEN [t2 EXCEPT !.pc = "q_local"]
                    ELSE [t2 EXCEPT !.pc = "fetch_best"])
    /\ UNCHANGED <<pictograms, files, saved, library, settings, now, lastActivity, due,
                   runner, env>>

\* A variant of QueryLocalById that answers from any record it finds.
QueryLocalById_AnyRecord(t) ==
    LET tr == task[t] IN
    /\ tr.pc = "q_id"
    /\ \E ok \in DbOutcomes :
        LET local == query_local_by_id(pictograms, tr.id) IN
        Upd(t, IF ~ok THEN Finish(tr, Err("StoreError", "local_read"))
               ELSE IF local # None
                    THEN [Finish(tr, Ok(local)) EXCEPT !.hit = TRUE]
               ELSE [tr EXCEPT !.pc = "fetch_id"])
    /\ UNCHANGED <<pictograms, files, saved, library, settings, now, lastActivity, due,
                   runner, env>>

\* get_or_fetch_by_id: query_local_by_id(pool, arasaac_id).await?
QueryLocalById(t) ==
    LET tr == task[t] IN
    /\ tr.pc = "q_id"
    /\ \E ok \in DbOutcomes :
        LET local == query_local_by_id(pictograms, tr.id) IN
        Upd(t, IF ~ok THEN Finish(tr, Err("StoreError", "local_read"))
               ELSE IF local # None /\ Get(local).local_file_path # None
                    THEN [tr EXCEPT !.pc = "exists", !.local = local]
               ELSE [tr EXCEPT !.pc = "fetch_id"])
    /\ UNCHANGED <<pictograms, files, saved, library, settings, now, lastActivity, due,
                   runner, env>>

\* A variant of CheckLocalFile that refetches although the file exists.
CheckLocalFile_Refetch(t) ==
    LET tr == task[t] IN
    /\ tr.pc = "exists"
    /\ Upd(t, [tr EXCEPT !.pc = "fetch_id", !.local = None])
    /\ UNCHANGED <<pictograms, files, saved, library, settings, now, lastActivity, due,
                   runner, env>>

\* get_or_fetch_by_id: local_path_exists(path).await, the cache hit
CheckLocalFile(t) ==
    LET tr == task[t] IN
    /\ tr.pc = "exists"
    /\ Upd(t, IF local_path_exists(files, Get(Get(tr.local).local_file_path))
              THEN [Finish(tr, Ok(tr.local)) EXCEPT !.hit = TRUE]
              ELSE [tr EXCEPT !.pc = "fetch_id", !.local = None])
    /\ UNCHANGED <<pictograms, files, saved, library, settings, now, lastActivity, due,
                   runner, env>>

\* The first pictogram of the fetched list goes to the upsert, or, without a
\* usable store, the fetched pictograms are mapped directly.
AfterFetch(tr, remote) ==
    IF tr.dbReady THEN [tr EXCEPT !.remote = remote, !.pc = "u_sel", !.idx = 1]
    ELSE LET mapped == [i \in 1..Len(remote) |-> remote_to_dto(Lang(tr), remote[i])] IN
         Finish([tr EXCEPT !.remote = remote],
                IF tr.op = "search" THEN Ok(sort_by_fuzzy_score(mapped, tr.query))
                ELSE Ok(mapped))

\* get_or_fetch_by_id: fetch_remote_by_id(&language, arasaac_id).await?
FetchById(t) ==
    LET tr == task[t] IN
    /\ tr.pc = "fetch_id"
    /\ \E resp \in ByIdResponses(tr.id) :
        LET r == fetch_remote_by_id(resp)
            t1 == [tr EXCEPT !.api = tr.api + 1, !.origin = Answer(resp)]
        IN Upd(t, IF r.kind # "Ok" THEN Finish(t1, r) ELSE AfterFetch(t1, r.val))
    /\ UNCHANGED <<pictograms, files, saved, library, settings, now, lastActivity, due,
                   runner, env>>

\* A variant of QueryLocal that refreshes from the origin after a local match.
QueryLocal_RefreshAfterHit(t) ==
    LET tr == task[t] IN
    /\ tr.pc = "q_local"
    /\ \E ok \in DbOutcomes, ft \in FullTextAnswers(pictograms, Lang(tr), tr.query) :
        LET local == query_local(pictograms, Lang(tr), tr.query, ft)
            t1 == [tr EXCEPT !.matching = Matching(tr.query, ft)]
        IN
        Upd(t, IF ~ok THEN Finish(t1, Err("StoreError", "local_read"))
               ELSE IF local # <<>>
                    THEN [t1 EXCEPT !.hit = TRUE, !.pc = "fetch_best"]
               ELSE [t1 EXCEPT !.pc = "fetch_best"])
    /\ UNCHANGED <<pictograms, files, saved, library, settings, now, lastActivity, due,
                   runner, env>>

\* search_local_first: query_local(pool, &language, query).await?
QueryLocal(t) ==
    LET tr == task[t] IN
    /\ tr.pc = "q_local"
    /\ \E ok \in DbOutcomes, ft \in FullTextAnswers(pictograms, Lang(tr), tr.query) :
        LET local == query_local(pictograms, Lang(tr), tr.query, ft)
            t1 == [tr EXCEPT !.matching = Matching(tr.query, ft)]
        IN
        Upd(t, IF ~ok THEN Finish(t1, Err("StoreError", "local_read"))
               ELSE IF local # <<>>
                    THEN [Finish(t1, Ok(sort_by_fuzzy_score(local, tr.query)))
                            EXCEPT !.hit = TRUE]
               ELSE [t1 EXCEPT !.pc = "fetch_best"])
    /\ UNCHANGED <<pictograms, files, saved, library, settings, now, lastActivity, due,
                   runner, env>>

\* A variant of FetchBest that tries the broader endpoint after a failure too.
FetchBest_FallbackOnError(t) ==
    LET tr == task[t] IN
    /\ tr.pc = "fetch_best"
    /\ \E resp \in SearchResponses :
        LET r == fetch_remote_vec(resp)
            t1 == [tr EXCEPT !.api = tr.api + 1, !.origin = Answer(resp)]
        IN Upd(t, IF r.kind = "Ok" /\ r.val # <<>> THEN AfterFetch(t1, r.val)
                  ELSE [t1 EXCEPT !.pc = "fetch_search"])
    /\ UNCHANGED <<pictograms, files, saved, library, settings, now, lastActivity, due,
                   runner, env>>

\* fetch_remote_search: the best-match endpoint
FetchBest(t) ==
    LET tr == task[t] IN
    /\ tr.pc = "fetch_best"
    /\ \E resp \in SearchResponses :
        LET r == fetch_remote_vec(resp)
            t1 == [tr EXCEPT !.api = tr.api + 1, !.origin = Answer(resp)]
        IN Upd(t, IF r.kind # "Ok" THEN Finish(t1, r)
                  ELSE IF r.val # <<>> THEN AfterFetch(t1, r.val)
                  ELSE [t1 EXCEPT !.pc = "fetch_search"])
    /\ UNCHANGED <<pictograms, files, saved, library, settings, now, lastActivity, due,
                   runner, env>>

\* fetch_remote_search: the broader search endpoint, after an empty best match
FetchSearch(t) ==
    LET tr == task[t] IN
    /\ tr.pc = "fetch_search"
    /\ \E resp \in SearchResponses :
        LET r == fetch_remote_vec(resp)
            t1 == [tr EXCEPT !.api = tr.api + 1, !.origin = Answer(resp)]
        IN Upd(t, IF r.kind # "Ok" THEN Finish(t1, r)
                  ELSE IF r.val # <<>> THEN AfterFetch(t1, r.val)
                  ELSE Finish(t1, Ok(<<>>)))
    /\ UNCHANGED <<pictograms, files, saved, library, settings, now, lastActivity, due,
                   runner, env>>

\* get_new_pictograms: fetch_remote_vec on the newest endpoint
FetchNew(t) ==
    LET tr == task[t] IN
    /\ tr.pc = "fetch_new"
    /\ \E resp \in SearchResponses :
        LET r == fetch_remote_vec(resp)
            t1 == [tr EXCEPT !.api = tr.api + 1, !.origin = Answer(resp)]
        IN Upd(t, IF r.kind # "Ok" THEN Finish(t1, r)
                  ELSE IF r.val # <<>> THEN AfterFetch(t1, r.val)
                  ELSE Finish(t1, Ok(<<>>)))
    /\ UNCHANGED <<pictograms, files, saved, library, settings, now, lastActivity, due,
                   runner, env>>

\* A variant of UpsertDone that propagates the upsert's error (as "?" would).
UpsertDone_Propagate(tr, ok) ==
    IF ~ok THEN Finish([tr EXCEPT !.upsertFailed = TRUE], Err("StoreError", "upsert"))
    ELSE IF tr.op = "byId" THEN [tr EXCEPT !.pc = "reread"]
    ELSE IF tr.idx < Len(tr.remote) THEN [tr EXCEPT !.pc = "u_sel", !.idx = tr.idx + 1]
    ELSE [tr EXCEPT !.pc = IF tr.op = "search" THEN "s_reread" ELSE "s_byids"]

\* upsert_remote_pictogram has returned for the pictogram remote[idx].
UpsertDone(tr, ok) ==
    LET t1 == [tr EXCEPT !.upsertFailed = tr.upsertFailed \/ ~ok,
                         !.existing = None, !.asset = NoAsset]
    IN IF tr.op = "byId"
       THEN (IF ok THEN [t1 EXCEPT !.pc = "reread"]
             ELSE Finish(t1, Ok(<<remote_to_dto(Lang(tr), tr.remote[1])>>)))
       ELSE (IF tr.idx < Len(tr.remote) THEN [t1 EXCEPT !.pc = "u_sel", !.idx = tr.idx + 1]
             ELSE [t1 EXCEPT !.pc = IF tr.op = "search" THEN "s_reread" ELSE "s_byids"])

\* upsert_remote_pictogram: SELECT local_file_path ... WHERE arasaac_id = ?
UpsertSelect(t) ==
    LET tr == task[t]
        row == RowOf(pictograms, tr.remote[tr.idx].id)
        existing == IF row = None THEN None ELSE Get(row).local_file_path
    IN
    /\ tr.pc = "u_sel"
    /\ \E ok \in DbOutcomes :
        Upd(t, IF ~ok THEN UpsertDone(tr, FALSE)
               ELSE IF existing # None THEN [tr EXCEPT !.pc = "u_exists", !.existing = existing]
               ELSE [tr EXCEPT !.pc = "u_svg"])
    /\ UNCHANGED <<pictograms, files, saved, library, settings, now, lastActivity, due,
                   runner, env>>

\* upsert_remote_pictogram: Some(path) if local_path_exists(&path).await
UpsertCheckFile(t) ==
    LET tr == task[t] IN
    /\ tr.pc = "u_exists"
    /\ Upd(t, IF local_path_exists(files, Get(tr.existing))
              THEN [tr EXCEPT !.pc = "u_ins",
                              !.asset = [url |-> Some(build_remote_png_url(tr.remote[tr.idx].id)),
                                         path |-> tr.existing]]
              ELSE [tr EXCEPT !.pc = "u_svg"])
    /\ UNCHANGED <<pictograms, files, saved, library, settings, now, lastActivity, due,
                   runner, env>>

\* download_pictogram_asset: create the directory, request the SVG, write it if
\* the answer is a success with an SVG or XML content type.
DownloadSvg(t) ==
    LET tr == task[t]
        p == tr.remote[tr.idx]
        slug == CategorySlug(p)
        t1 == [tr EXCEPT !.dl = tr.dl + 1]
    IN
    /\ tr.pc = "u_svg"
    /\ \E out \in SvgOutcomes :
        CASE out = "mkdir_failed" ->
                /\ Upd(t, UpsertDone(tr, FALSE))
                /\ UNCHANGED files
          [] out = "no_svg" ->
                /\ Upd(t, [t1 EXCEPT !.pc = "u_png"])
                /\ UNCHANGED files
          [] out = "svg" ->
                /\ Upd(t, [t1 EXCEPT !.pc = "u_ins", !.wroteFile = TRUE,
                                     !.asset = [url |-> Some(SvgUrl(p.id)),
                                                path |-> Some(PublicPath(slug, p.id, "svg"))]])
                /\ files' = files \cup {DiskFile(slug, p.id, "svg")}
          [] out = "write_failed" ->
                /\ Upd(t, UpsertDone(t1, FALSE))
                /\ UNCHANGED files
          [] out = "write_partial" ->
                /\ Upd(t, UpsertDone([t1 EXCEPT !.wroteFile = TRUE], FALSE))
                /\ files' = files \cup {DiskFile(slug, p.id, "svg")}
    /\ UNCHANGED <<pictograms, saved, library, settings, now, lastActivity, due, runner, env>>

\* download_pictogram_asset: the PNG fallback
DownloadPng(t) ==
    LET tr == task[t]
        p == tr.remote[tr.idx]
        slug == CategorySlug(p)
        t1 == [tr EXCEPT !.dl = tr.dl + 1]
    IN
    /\ tr.pc = "u_png"
    /\ \E out \in PngOutcomes :
        CASE out = "transport_failed" ->
                /\ Upd(t, UpsertDone(t1, FALSE))
                /\ UNCHANGED files
          [] out = "non_success" ->
                /\ Upd(t, [t1 EXCEPT !.pc = "u_ins",
                                     !.asset = [url |-> Some(build_remote_png_url(p.id)),
                                                path |-> None]])
                /\ UNCHANGED files
          [] out = "png" ->
                /\ Upd(t, [t1 EXCEPT !.pc = "u_ins", !.wroteFile = TRUE,
                                     !.asset = [url |-> Some(build_remote_png_url(p.id)),
                                                path |-> Some(PublicPath(slug, p.id, "png"))]])
                /\ files' = files \cup {DiskFile(slug, p.id, "png")}
          [] out = "write_failed" ->
                /\ Upd(t, UpsertDone(t1, FALSE))
                /\ UNCHANGED files
          [] out = "write_partial" ->
                /\ Upd(t, UpsertDone([t1 EXCEPT !.wroteFile = TRUE], FALSE))
                /\ files' = files \cup {DiskFile(slug, p.id, "png")}
    /\ UNCHANGED <<pictograms, saved, library, settings, now, lastActivity, due, runner, env>>

\* upsert_remote_pictogram: INSERT INTO pictograms ... ON DUPLICATE KEY UPDATE ...
UpsertInsert(t) ==
    LET tr == task[t]
        p == tr.remote[tr.idx]
    IN
    /\ tr.pc = "u_ins"
    /\ \E ok \in DbOutcomes :
        IF ok
        THEN /\ pictograms' = UpsertInto(pictograms,
                                  UpsertRow(Lang(tr), p, tr.asset.url, tr.asset.path))
             /\ Upd(t, UpsertDone([tr EXCEPT !.wroteRow = TRUE,
                                              !.withFile = tr.asset.path # None], TRUE))
        ELSE /\ Upd(t, UpsertDone(tr, FALSE))
             /\ UNCHANGED pictograms
    /\ UNCHANGED <<files, saved, library, settings, now, lastActivity, due, runner, env>>

\* get_or_fetch_by_id: query_local_by_id(pool, arasaac_id).await?.ok_or(NotFound)
RereadById(t) ==
    LET tr == task[t] IN
    /\ tr.pc = "reread"
    /\ \E ok \in DbOutcomes :
        LET row == query_local_by_id(pictograms, tr.id) IN
        Upd(t, IF ~ok THEN Finish(tr, Err("StoreError", "reread"))
               ELSE IF row = None THEN Finish(tr, Err("NotFound", "reread"))
               ELSE Finish(tr, Ok(row)))
    /\ UNCHANGED <<pictograms, files, saved, library, settings, now, lastActivity, due,
                   runner, env>>

\* search_local_first: the second query_local(pool, &language, query).await?
RereadSearch(t) ==
    LET tr == task[t] IN
    /\ tr.pc = "s_reread"
    /\ \E ok \in DbOutcomes, ft \in FullTextAnswers(pictograms, Lang(tr), tr.query) :
        LET hydrated == query_local(pictograms, Lang(tr), tr.query, ft) IN
        Upd(t, IF ~ok THEN Finish(tr, Err("StoreError", "reread"))
               ELSE IF hydrated # <<>>
                    THEN Finish(tr, Ok(sort_by_fuzzy_score(hydrated, tr.query)))
               ELSE [tr EXCEPT !.pc = "s_byids"])
    /\ UNCHANGED <<pictograms, files, saved, library, settings, now, lastActivity, due,
                   runner, env>>

RemoteIds(remote) == [i \in 1..Len(remote) |-> remote[i].id]

\* search_local_first: query_local_by_ids(pool, &ids).await? after an empty re-read;
\* get_new_pictograms: query_local_by_ids(pool, &ids).await?, else the direct mapping
RereadByIds(t) ==
    LET tr == task[t] IN
    /\ tr.pc = "s_byids"
    /\ \E ok \in DbOutcomes :
        LET hydrated == query_local_by_ids(pictograms, RemoteIds(tr.remote)) IN
        Upd(t, IF ~ok THEN Finish(tr, Err("StoreError", "reread"))
               ELSE IF tr.op = "search"
               THEN Finish(tr, Ok(sort_by_fuzzy_score(hydrated, tr.query)))
               ELSE IF hydrated # <<>> THEN Finish(tr, Ok(hydrated))
               ELSE Finish(tr, Ok([i \in 1..Len(tr.remote) |->
                                     remote_to_dto(Lang(tr), tr.remote[i])])))
    /\ UNCHANGED <<pictograms, files, saved, library, settings, now, lastActivity, due,
                   runner, env>>

\* The answer has been delivered; the task may serve another request.
Return(t) ==
    /\ task[t].pc = "done"
    /\ task[t].via = "route"
    /\ Upd(t, IdleTask)
    /\ UNCHANGED <<pictograms, files, saved, library, settings, now, lastActivity, due,
                   runner, env>>

\* An asset file is removed from outside the engine.
RemoveFile ==
    /\ env.removal
    /\ \E f \in files : files' = files \ {f}
    /\ UNCHANGED <<pictograms, task, saved, library, settings, now, lastActivity, due, runner, env>>

(***************************************************************************)
(* Bookmarks: the saved_pictograms table and its handlers.                 *)
(***************************************************************************)
Users == {"u1", "u2"}
LabelInputs == {None, Some(<<"L">>), Some(<<"M">>)}

\* The key of saved_pictograms that ON DUPLICATE KEY answers to.
SameBookmark(row, user_id, arasaac_id) ==
    row.user_id = user_id /\ row.arasaac_id = arasaac_id

\* A bookmark as the INSERT of save_pictogram creates it.
NewBookmark(user_id, arasaac_id, label) ==
    [user_id |-> user_id, arasaac_id |-> arasaac_id, label |-> label, used_count |-> 0]

HasBookmark(rows, user_id, arasaac_id) ==
    \E i \in 1..Len(rows) : SameBookmark(rows[i], user_id, arasaac_id)

\* A variant of save_pictogram whose update takes the new label even when absent.
save_pictogram_Overwrite(rows, user_id, arasaac_id, label) ==
    IF HasBookmark(rows, user_id, arasaac_id)
    THEN [i \in 1..Len(rows) |->
            IF SameBookmark(rows[i], user_id, arasaac_id)
            THEN [rows[i] EXCEPT !.label = label] ELSE rows[i]]
    ELSE Append(rows, NewBookmark(user_id, arasaac_id, label))

\* save_pictogram: INSERT ... ON DUPLICATE KEY UPDATE label = COALESCE(VALUES(label), label)
save_pictogram(rows, user_id, arasaac_id, label) ==
    IF HasBookmark(rows, user_id, arasaac_id)
    THEN [i \in 1..Len(rows) |->
            IF SameBookmark(rows[i], user_id, arasaac_id)
            THEN [rows[i] EXCEPT !.label = IF label # None THEN label ELSE @]
            ELSE rows[i]]
    ELSE Append(rows, NewBookmark(user_id, arasaac_id, label))

\* A variant of unsave_pictogram whose DELETE is not restricted to the user.
unsave_pictogram_AnyUser(rows, user_id, arasaac_id) ==
    SelectSeq(rows, LAMBDA r : r.arasaac_id # arasaac_id)

\* unsave_pictogram: DELETE ... WHERE user_id = ? AND arasaac_id = ?
unsave_pictogram(rows, user_id, arasaac_id) ==
    SelectSeq(rows, LAMBDA r : ~SameBookmark(r, user_id, arasaac_id))

\* A variant of record_pictogram_use whose update is not restricted to the user.
record_pictogram_use_AnyUser(rows, user_id, arasaac_id) ==
    [i \in 1..Len(rows) |->
        IF rows[i].arasaac_id = arasaac_id
        THEN [rows[i] EXCEPT !.used_count = @ + 1] ELSE rows[i]]

\* A variant of record_pictogram_use that creates the bookmark it does not find.
record_pictogram_use_Upsert(rows, user_id, arasaac_id) ==
    IF HasBookmark(rows, user_id, arasaac_id)
    THEN [i \in 1..Len(rows) |->
            IF SameBookmark(rows[i], user_id, arasaac_id)
            THEN [rows[i] EXCEPT !.used_count = @ + 1] ELSE rows[i]]
    ELSE Append(rows, [NewBookmark(user_id, arasaac_id, None) EXCEPT !.used_count = 1])

\* record_pictogram_use: UPDATE ... SET used_count = used_count + 1 WHERE ...
record_pictogram_use(rows, user_id, arasaac_id) ==
    [i \in 1..Len(rows) |->
        IF SameBookmark(rows[i], user_id, arasaac_id)
        THEN [rows[i] EXCEPT !.used_count = @ + 1] ELSE rows[i]]

\* A bookmark request with its answer.
Bookmarked(op, role, user_id, arasaac_id, label, r) ==
    [IdleTask EXCEPT !.op = op, !.role = role, !.user = user_id, !.id = arasaac_id,
                     !.label = label, !.pc = "done", !.svc = r, !.resp = r]

\* POST /pictograms/saved
SaveRoute(t) ==
    /\ task[t].pc = "idle"
    /\ \E role \in env.roles, user_id \in env.users, arasaac_id \in env.ids, label \in LabelInputs,
          ok \in DbOutcomes :
        /\ HasBookmark(saved, user_id, arasaac_id) \/ Len(saved) < MaxSaved
        /\ IF role = "child"
           THEN /\ Upd(t, Bookmarked("save", role, user_id, arasaac_id, label,
                                     Err("Forbidden", "route")))
                /\ UNCHANGED saved
           ELSE IF ~ok
           THEN /\ Upd(t, Bookmarked("save", role, user_id, arasaac_id, label,
                                     Err("StoreError", "saved")))
                /\ UNCHANGED saved
           ELSE /\ Upd(t, Bookmarked("save", role, user_id, arasaac_id, label, Ok(<<>>)))
                /\ saved' = save_pictogram(saved, user_id, arasaac_id, label)
    /\ mark_activity
    /\ UNCHANGED <<pictograms, files, library, settings, now, due, runner, env>>

\* DELETE /pictograms/saved/{arasaac_id}
UnsaveRoute(t) ==
    /\ task[t].pc = "idle"
    /\ \E role \in env.roles, user_id \in env.users, arasaac_id \in env.ids, ok \in DbOutcomes :
        IF role = "child"
        THEN /\ Upd(t, Bookmarked("unsave", role, user_id, arasaac_id, None,
                                  Err("Forbidden", "route")))
             /\ UNCHANGED saved
        ELSE IF ~ok
        THEN /\ Upd(t, Bookmarked("unsave", role, user_id, arasaac_id, None,
                                  Err("StoreError", "saved")))
             /\ UNCHANGED saved
        ELSE /\ Upd(t, Bookmarked("unsave", role, user_id, arasaac_id, None, Ok(<<>>)))
             /\ saved' = unsave_pictogram(saved, user_id, arasaac_id)
    /\ mark_activity
    /\ UNCHANGED <<pictograms, files, library, settings, now, due, runner, env>>

\* POST /pictograms/saved/{arasaac_id}/use
RecordUseRoute(t) ==
    /\ task[t].pc = "idle"
    /\ \E role \in env.roles, user_id \in env.users, arasaac_id \in env.ids, ok \in DbOutcomes :
        /\ \A i \in 1..Len(saved) :
                SameBookmark(saved[i], user_id, arasaac_id) => saved[i].used_count < MaxUses
        /\ IF ~ok
           THEN /\ Upd(t, Bookmarked("use", role, user_id, arasaac_id, None,
                                     Err("StoreError", "saved")))
                /\ UNCHANGED saved
           ELSE /\ Upd(t, Bookmarked("use", role, user_id, arasaac_id, None, Ok(<<>>)))
                /\ saved' = record_pictogram_use(saved, user_id, arasaac_id)
    /\ mark_activity
    /\ UNCHANGED <<pictograms, files, library, settings, now, due, runner, env>>

(***************************************************************************)
(* The prefetch settings and the idle prefetch worker.                     *)
(***************************************************************************)
Max(a, b) == IF a >= b THEN a ELSE b
\* A variant of Clamp that lets every value through.
Clamp_Unbounded(v, lo, hi) == v

\* u64::clamp
Clamp(v, lo, hi) == IF v < lo THEN lo ELSE IF v > hi THEN hi ELSE v

IDLE_MINUTES_MAX == 24 * 60
BATCH_SIZE_MAX == 2000

\* Config::from_env without the PICTOGRAM_PREFETCH_* variables set.
DefaultConfig == [enabled |-> FALSE, idle_minutes |-> 20, batch_size |-> 50]

\* A variant of ensure_prefetch_settings_row whose INSERT overwrites the existing
\* row with the configuration's values.
ensure_prefetch_settings_row_Reseed(row, config) ==
    Some([enabled |-> config.enabled,
          idle_minutes |-> Clamp(config.idle_minutes, 1, IDLE_MINUTES_MAX),
          batch_size |-> Clamp(config.batch_size, 1, BATCH_SIZE_MAX),
          last_run_at |-> None, last_result |-> None])

\* ensure_prefetch_settings_row: INSERT ... ON DUPLICATE KEY UPDATE id = VALUES(id)
ensure_prefetch_settings_row(row, config) ==
    IF row # None THEN row
    ELSE Some([enabled |-> config.enabled,
               idle_minutes |-> Clamp(config.idle_minutes, 1, IDLE_MINUTES_MAX),
               batch_size |-> Clamp(config.batch_size, 1, BATCH_SIZE_MAX),
               last_run_at |-> None, last_result |-> None])

\* A variant of activity_clock that sets the clock anew at every use.
activity_clock_Reset == Some(now)

\* activity_clock(): the clock after get_or_init
activity_clock == IF lastActivity = None THEN Some(now) ELSE lastActivity

\* idle_seconds(): now.saturating_sub(last)
idle_seconds ==
    LET last == Get(activity_clock) IN IF now >= last THEN now - last ELSE 0

\* mark_activity() as its two steps. First the receiver and the argument of the
\* store are evaluated: activity_clock() and now_unix_seconds().
MarkRead(t) ==
    /\ task[t].pc = "idle"
    /\ Upd(t, [IdleTask EXCEPT !.op = "mark", !.pc = "mark_store", !.stamp = Some(now)])
    /\ lastActivity' = activity_clock
    /\ UNCHANGED <<pictograms, files, saved, library, settings, now, due, runner, env>>

\* Then the value read is stored: AtomicU64::store(.., Ordering::Relaxed)
MarkStore(t) ==
    /\ task[t].pc = "mark_store"
    /\ lastActivity' = task[t].stamp
    /\ Upd(t, IdleTask)
    /\ UNCHANGED <<pictograms, files, saved, library, settings, now, due, runner, env>>

\* The worker between two ticks, with the counters of its last tick.
IdleWorker ==
    [pc |-> "w_wait", outcome |-> "none", batch_size |-> 0, idle |-> 0, required |-> 0,
     seeds |-> <<>>, ids |-> <<>>, i |-> 0, processed_ids |-> 0, downloaded |-> 0,
     already_cached |-> 0, hydrated_seeded |-> 0, api |-> 0, dl |-> 0, by |-> "worker"]

\* The sequences that list the elements of a set once each.
Orders(S) == {q \in [1..Cardinality(S) -> S] : \A i, j \in 1..Cardinality(S) : i # j => q[i] # q[j]}

\* Time passes by one interval of the worker's ticker, whose tick becomes due.
Advance ==
    /\ now < MaxNow
    /\ now' = now + IntervalSeconds
    /\ due' = due + 1
    /\ UNCHANGED <<pictograms, files, task, saved, library, settings, lastActivity,
                   runner, env>>

\* A variant of WorkerTick that takes a tick wherever the worker is.
WorkerTick_Overlapping ==
    /\ due > 0
    /\ due' = due - 1
    /\ runner' = [IdleWorker EXCEPT !.pc = "w_eval"]
    /\ UNCHANGED <<pictograms, files, task, saved, library, settings, now, lastActivity,
                   env>>

\* spawn_idle_prefetch_worker: ticker.tick().await at the head of the loop
WorkerTick ==
    /\ runner.pc = "w_wait"
    /\ due > 0
    /\ due' = due - 1
    /\ runner' = [IdleWorker EXCEPT !.pc = "w_eval"]
    /\ UNCHANGED <<pictograms, files, task, saved, library, settings, now, lastActivity,
                   env>>

\* A variant of the worker's checks that leaves the enabled flag out.
Gate_AlwaysEnabled(row, current_idle) ==
    LET required_idle_secs == Max(row.idle_minutes, 1) * 60 IN
    IF current_idle < required_idle_secs
    THEN [IdleWorker EXCEPT !.outcome = "not_idle", !.idle = current_idle,
                            !.required = required_idle_secs]
    ELSE [IdleWorker EXCEPT !.pc = "p_seed_q", !.outcome = "running",
                            !.batch_size = row.batch_size, !.idle = current_idle,
                            !.required = required_idle_secs]

\* spawn_idle_prefetch_worker: the worker after its checks of the settings row
\* and of the idle time
Gate(row, current_idle) ==
    LET required_idle_secs == Max(row.idle_minutes, 1) * 60 IN
    IF ~row.enabled THEN [IdleWorker EXCEPT !.outcome = "disabled"]
    ELSE IF current_idle < required_idle_secs
    THEN [IdleWorker EXCEPT !.outcome = "not_idle", !.idle = current_idle,
                            !.required = required_idle_secs]
    ELSE [IdleWorker EXCEPT !.pc = "p_seed_q", !.outcome = "running",
                            !.batch_size = row.batch_size, !.idle = current_idle,
                            !.required = required_idle_secs]

\* spawn_idle_prefetch_worker: get_prefetch_settings_internal, then the checks
WorkerEval ==
    /\ runner.pc = "w_eval"
    /\ \E ensured \in DbOutcomes, selected \in DbOutcomes :
        IF ~ensured
        THEN /\ runner' = [IdleWorker EXCEPT !.outcome = "settings_failed"]
             /\ UNCHANGED <<settings, lastActivity>>
        ELSE /\ settings' = ensure_prefetch_settings_row(settings, env.config)
             /\ IF ~selected
                THEN /\ runner' = [IdleWorker EXCEPT !.outcome = "settings_failed"]
                     /\ UNCHANGED lastActivity
                ELSE /\ runner' = Gate(Get(settings'), idle_seconds)
                     /\ lastActivity' = IF Get(settings').enabled THEN activity_clock
                                        ELSE lastActivity
    /\ UNCHANGED <<pictograms, files, task, saved, library, now, due, env>>

\* prefetch_once_internal returns r: the worker's loop only logs it, and
\* run_prefetch_now hands it to its route handler, which answers with it.
BatchReturns(r) ==
    IF runner.by = "worker" THEN UNCHANGED task
    ELSE Upd(runner.by, Finish(task[runner.by], r))

\* ensure_seeded_activity_assets: the system cards with an asset path under the
\* public prefix
SeededRows ==
    {r \in library : r.is_system /\ r.local_image_path # None
                     /\ Get(r.local_image_path).prefix = PUBLIC_PREFIX}

\* prefetch_once_internal: ensure_seeded_activity_assets(pool), its SELECT
SeedQuery ==
    /\ runner.pc = "p_seed_q"
    /\ \E ok \in DbOutcomes :
        IF ok THEN \E q \in Orders(SeededRows) :
                      runner' = [runner EXCEPT !.pc = "p_seed", !.seeds = q]
        ELSE runner' = [runner EXCEPT !.pc = "p_load"]
    /\ UNCHANGED <<pictograms, files, task, saved, library, settings, now, lastActivity,
                   due, env>>

SeedOutcomes ==
    {"written", "non_success"}
    \cup (IF env.netFaults THEN {"transport_failed"} ELSE {})
    \cup (IF env.fsFaults THEN {"mkdir_failed", "write_failed"} ELSE {})

\* ensure_seeded_activity_assets: one row of its loop, with download_to_public_path
SeedStep ==
    /\ runner.pc = "p_seed"
    /\ IF runner.seeds = <<>>
       THEN /\ runner' = [runner EXCEPT !.pc = "p_load"]
            /\ UNCHANGED files
       ELSE LET row == Head(runner.seeds)
                path == Get(row.local_image_path)
                rest == [runner EXCEPT !.seeds = Tail(runner.seeds)]
            IN IF local_path_exists(files, path)
               THEN runner' = rest /\ UNCHANGED files
               ELSE \E out \in SeedOutcomes :
                     /\ runner' = [rest EXCEPT
                            !.dl = IF out = "mkdir_failed" THEN @ ELSE @ + 1,
                            !.hydrated_seeded = IF out = "written" THEN @ + 1 ELSE @]
                     /\ files' = IF out = "written"
                                 THEN files \cup {Get(disk_path_from_public_path(path))}
                                 ELSE files
    /\ UNCHANGED <<pictograms, task, saved, library, settings, now, lastActivity, due,
                   env>>

\* The ids of a table's rows.
IdsOf(rows) == {rows[i].arasaac_id : i \in 1..Len(rows)}

\* The elements of a set of integers in ascending order.
RECURSIVE Ascending(_)
Ascending(S) ==
    IF S = {} THEN <<>>
    ELSE LET m == CHOOSE x \in S : \A y \in S : x <= y IN <<m>> \o Ascending(S \ {m})

\* A variant of load_prefetch_candidate_ids without the LIMIT.
load_prefetch_candidate_ids_Unlimited(batch_size) ==
    Ascending({r.arasaac_id : r \in library} \cup IdsOf(saved) \cup IdsOf(pictograms))

\* load_prefetch_candidate_ids: the distinct ids of the three tables, ascending,
\* LIMIT batch_size.clamp(1, 2000)
load_prefetch_candidate_ids(batch_size) ==
    Take(Ascending({r.arasaac_id : r \in library} \cup IdsOf(saved) \cup IdsOf(pictograms)),
         Clamp(batch_size, 1, BATCH_SIZE_MAX))

\* A variant of LoadCandidates in which a failed query ends the worker's loop.
LoadCandidates_Stops ==
    /\ runner.pc = "p_load"
    /\ \E ok \in DbOutcomes :
        LET ids == load_prefetch_candidate_ids(runner.batch_size) IN
        /\ runner' = IF ~ok THEN [runner EXCEPT !.pc = "w_stopped", !.outcome = "aborted"]
                     ELSE IF ids = <<>> THEN [runner EXCEPT !.pc = "p_record"]
                     ELSE [runner EXCEPT !.pc = "p_check", !.ids = ids, !.i = 1]
        /\ UNCHANGED task
    /\ UNCHANGED <<pictograms, files, saved, library, settings, now, lastActivity,
                   due, env>>

\* prefetch_once_internal: load_prefetch_candidate_ids(pool, batch_size).await?
LoadCandidates ==
    /\ runner.pc = "p_load"
    /\ \E ok \in DbOutcomes :
        LET ids == load_prefetch_candidate_ids(runner.batch_size) IN
        /\ runner' = IF ~ok THEN [runner EXCEPT !.pc = "w_wait", !.outcome = "aborted",
                                                !.by = "worker"]
                     ELSE IF ids = <<>> THEN [runner EXCEPT !.pc = "p_record"]
                     ELSE [runner EXCEPT !.pc = "p_check", !.ids = ids, !.i = 1]
        /\ IF ~ok THEN BatchReturns(Err("StoreError", "candidates")) ELSE UNCHANGED task
    /\ UNCHANGED <<pictograms, files, saved, library, settings, now, lastActivity,
                   due, env>>

\* is_arasaac_id_cached_locally
is_arasaac_id_cached_locally(rows, fs, arasaac_id) ==
    LET row == RowOf(rows, arasaac_id) IN
    IF row # None /\ Get(row).local_file_path # None
    THEN local_path_exists(fs, Get(Get(row).local_file_path))
    ELSE FALSE

\* A variant of the loop that ends after its first id.
NextCandidate_FirstOnly(w) == [w EXCEPT !.pc = "p_record"]

\* prefetch_once_internal: `for id in ids`, the next id or the end of the loop
NextCandidate(w) ==
    IF w.i < Len(w.ids) THEN [w EXCEPT !.pc = "p_check", !.i = w.i + 1]
    ELSE [w EXCEPT !.pc = "p_record"]

\* prefetch_once_internal: one id of the loop, up to the call of get_or_fetch_by_id
CheckCandidate ==
    LET id == runner.ids[runner.i]
        w == [runner EXCEPT !.processed_ids = @ + 1]
    IN
    /\ runner.pc = "p_check"
    /\ \E ok \in DbOutcomes :
        IF ~ok
        THEN /\ runner' = [w EXCEPT !.pc = "w_wait", !.outcome = "aborted", !.by = "worker"]
             /\ BatchReturns(Err("StoreError", "cache_check"))
        ELSE IF is_arasaac_id_cached_locally(pictograms, files, id)
        THEN runner' = NextCandidate([w EXCEPT !.already_cached = @ + 1]) /\ UNCHANGED task
        ELSE /\ runner' = [w EXCEPT !.pc = "p_resolve"]
             /\ Upd("w", [IdleTask EXCEPT !.op = "byId", !.via = "prefetch", !.pc = "ensure",
                                          !.language = S_en, !.id = id])
    /\ UNCHANGED <<pictograms, files, saved, library, settings, now, lastActivity, due,
                   env>>

\* prefetch_once_internal: get_or_fetch_by_id has returned
AfterResolve ==
    LET tr == task["w"]
        got == /\ tr.svc.kind = "Ok"
               /\ tr.svc.val[1].local_file_path # None
               /\ local_path_exists(files, Get(tr.svc.val[1].local_file_path))
    IN
    /\ runner.pc = "p_resolve"
    /\ tr.pc = "done"
    /\ runner' = NextCandidate([runner EXCEPT !.downloaded = IF got THEN @ + 1 ELSE @,
                                              !.api = @ + tr.api, !.dl = @ + tr.dl])
    /\ Upd("w", IdleTask)
    /\ UNCHANGED <<pictograms, files, saved, library, settings, now, lastActivity, due,
                   env>>

\* prefetch_once_internal: UPDATE pictogram_prefetch_settings SET last_run_at, last_result_json
RecordRun ==
    LET result == [processed_ids |-> runner.processed_ids, downloaded |-> runner.downloaded,
                   already_cached |-> runner.already_cached,
                   hydrated_seeded |-> runner.hydrated_seeded,
                   idle_seconds |-> runner.idle]
    IN
    /\ runner.pc = "p_record"
    /\ \E ok \in DbOutcomes :
        /\ IF ok /\ settings # None
           THEN /\ settings' = Some([Get(settings) EXCEPT !.last_run_at = Some(now),
                                                          !.last_result = Some(result)])
                /\ runner' = [runner EXCEPT !.pc = "w_wait", !.outcome = "ran",
                                            !.by = "worker"]
           ELSE /\ runner' = [runner EXCEPT !.pc = "w_wait", !.by = "worker",
                                            !.outcome = IF ok THEN "ran" ELSE "record_failed"]
                /\ UNCHANGED settings
        /\ BatchReturns(IF ok THEN Ok(<<result>>) ELSE Err("StoreError", "record_run"))
    /\ UNCHANGED <<pictograms, files, saved, library, now, lastActivity, due, env>>

\* The bodies of the settings update an administrator sends.
SettingsRequests ==
    {[enabled |-> None, idle_minutes |-> None, batch_size |-> None],
     [enabled |-> Some(FALSE), idle_minutes |-> None, batch_size |-> None],
     [enabled |-> None, idle_minutes |-> Some(0), batch_size |-> Some(0)],
     [enabled |-> None, idle_minutes |-> Some(5000), batch_size |-> Some(5000)],
     [enabled |-> Some(TRUE), idle_minutes |-> Some(2), batch_size |-> Some(2)]}

\* The settings row after update_prefetch_settings, where the statement numbered
\* failing fails (0: none; 1: the ensure; 2, 3, 4: an UPDATE; 5: the final read).
UpdatedSettings(row, config, enabled, idle_minutes, batch_size, failing) ==
    LET s0 == Get(ensure_prefetch_settings_row(row, config))
        s1 == IF enabled # None /\ failing # 2
              THEN [s0 EXCEPT !.enabled = Get(enabled)] ELSE s0
        s2 == IF idle_minutes # None /\ failing # 3
              THEN [s1 EXCEPT !.idle_minutes = Clamp(Get(idle_minutes), 1, IDLE_MINUTES_MAX)]
              ELSE s1
        s3 == IF batch_size # None /\ failing # 4
              THEN [s2 EXCEPT !.batch_size = Clamp(Get(batch_size), 1, BATCH_SIZE_MAX)]
              ELSE s2
    IN CASE failing = 1 -> row
         [] failing = 2 -> Some(s0)
         [] failing = 3 -> Some(s1)
         [] failing = 4 -> Some(s2)
         [] OTHER -> Some(s3)

\* prefetch_row_to_dto, which reads idle_seconds()
prefetch_row_to_dto(row) ==
    [enabled |-> row.enabled, idle_minutes |-> Max(row.idle_minutes, 1),
     batch_size |-> Max(row.batch_size, 1), last_run_at |-> row.last_run_at,
     last_result |-> row.last_result, idle_seconds |-> idle_seconds]

\* A request to one of the prefetch routes with its answer.
Administered(op, body, r) ==
    [IdleTask EXCEPT !.op = op, !.role = "admin", !.body = body, !.pc = "done",
                     !.svc = r, !.resp = r]

\* GET of the prefetch settings: get_prefetch_settings
GetSettings(t) ==
    /\ task[t].pc = "idle"
    /\ \E ensured \in DbOutcomes, selected \in DbOutcomes :
        IF ~ensured
        THEN /\ Upd(t, Administered("getSettings", None, Err("StoreError", "settings")))
             /\ UNCHANGED <<settings, lastActivity>>
        ELSE /\ settings' = ensure_prefetch_settings_row(settings, env.config)
             /\ IF ~selected
                THEN /\ Upd(t, Administered("getSettings", None,
                                            Err("StoreError", "settings")))
                     /\ UNCHANGED lastActivity
                ELSE /\ Upd(t, Administered("getSettings", None,
                                            Ok(<<prefetch_row_to_dto(Get(settings'))>>)))
                     /\ lastActivity' = activity_clock
    /\ UNCHANGED <<pictograms, files, saved, library, now, due, runner, env>>

\* PUT of the prefetch settings: update_prefetch_settings, and the settings it answers
UpdateSettings(t) ==
    /\ task[t].pc = "idle"
    /\ \E body \in SettingsRequests, failing \in IF env.dbFaults THEN 0..5 ELSE {0} :
        /\ failing = 2 => body.enabled # None
        /\ failing = 3 => body.idle_minutes # None
        /\ failing = 4 => body.batch_size # None
        /\ settings' = UpdatedSettings(settings, env.config, body.enabled,
                                       body.idle_minutes, body.batch_size, failing)
        /\ lastActivity' = IF failing = 0 THEN activity_clock ELSE lastActivity
        /\ Upd(t, Administered("updateSettings", Some(body),
                               IF failing = 0
                               THEN Ok(<<prefetch_row_to_dto(Get(settings'))>>)
                               ELSE Err("StoreError", "settings")))
    /\ UNCHANGED <<pictograms, files, saved, library, now, due, runner, env>>

\* POST that runs a batch now: run_prefetch_now up to its call of
\* prefetch_once_internal, whose steps are the batch's; the batch starts while
\* the worker waits for its tick.
RunNow(t) ==
    /\ task[t].pc = "idle"
    /\ runner.pc = "w_wait"
    /\ \E ensured \in DbOutcomes, selected \in DbOutcomes :
        IF ~ensured
        THEN /\ Upd(t, Administered("runNow", None, Err("StoreError", "settings")))
             /\ UNCHANGED <<settings, lastActivity, runner>>
        ELSE /\ settings' = ensure_prefetch_settings_row(settings, env.config)
             /\ IF ~selected
                THEN /\ Upd(t, Administered("runNow", None, Err("StoreError", "settings")))
                     /\ UNCHANGED <<lastActivity, runner>>
                ELSE /\ Upd(t, [IdleTask EXCEPT !.op = "runNow", !.role = "admin",
                                                !.pc = "run_wait"])
                     /\ runner' = [IdleWorker EXCEPT
                                     !.pc = "p_seed_q", !.outcome = "running",
                                     !.batch_size = Get(settings').batch_size,
                                     !.idle = idle_seconds, !.by = t]
                     /\ lastActivity' = activity_clock
    /\ UNCHANGED <<pictograms, files, saved, library, now, due, env>>

\* run_prefetch_now as its own call: the request's task runs
\* prefetch_once_internal itself, whatever the worker is doing.  The batch in
\* progress is the task's batch field; its nested get_or_fetch_by_id runs in the
\* frame c.
BatchOf(t) == Get(task[t].batch)

UpdBatch(t, w) == Upd(t, [task[t] EXCEPT !.batch = Some(w)])

\* run_prefetch_now: get_prefetch_settings_internal, then prefetch_once_internal
RunNowBegin(t) ==
    /\ task[t].pc = "idle"
    /\ \E ensured \in DbOutcomes, selected \in DbOutcomes :
        IF ~ensured
        THEN /\ Upd(t, Administered("runNow", None, Err("StoreError", "settings")))
             /\ UNCHANGED <<settings, lastActivity>>
        ELSE /\ settings' = ensure_prefetch_settings_row(settings, env.config)
             /\ IF ~selected
                THEN /\ Upd(t, Administered("runNow", None, Err("StoreError", "settings")))
                     /\ UNCHANGED lastActivity
                ELSE /\ Upd(t, [IdleTask EXCEPT
                                  !.op = "runNow", !.role = "admin", !.pc = "batch",
                                  !.batch = Some([IdleWorker EXCEPT
                                      !.pc = "p_seed_q", !.outcome = "running",
                                      !.batch_size = Get(settings').batch_size,
                                      !.idle = idle_seconds, !.by = t])])
                     /\ lastActivity' = activity_clock
    /\ UNCHANGED <<pictograms, files, saved, library, now, due, runner, env>>

\* prefetch_once_internal in the request's task: ensure_seeded_activity_assets, its SELECT
RunNowSeedQuery(t) ==
    /\ task[t].pc = "batch"
    /\ BatchOf(t).pc = "p_seed_q"
    /\ \E ok \in DbOutcomes :
        IF ok THEN \E q \in Orders(SeededRows) :
                      UpdBatch(t, [BatchOf(t) EXCEPT !.pc = "p_seed", !.seeds = q])
        ELSE UpdBatch(t, [BatchOf(t) EXCEPT !.pc = "p_load"])
    /\ UNCHANGED <<pictograms, files, saved, library, settings, now, lastActivity,
                   due, runner, env>>

\* prefetch_once_internal in the request's task: one row of the seeding loop
RunNowSeedStep(t) ==
    LET w == BatchOf(t) IN
    /\ task[t].pc = "batch"
    /\ w.pc = "p_seed"
    /\ IF w.seeds = <<>>
       THEN /\ UpdBatch(t, [w EXCEPT !.pc = "p_load"])
            /\ UNCHANGED files
       ELSE LET row == Head(w.seeds)
                path == Get(row.local_image_path)
                rest == [w EXCEPT !.seeds = Tail(w.seeds)]
            IN IF local_path_exists(files, path)
               THEN UpdBatch(t, rest) /\ UNCHANGED files
               ELSE \E out \in SeedOutcomes :
                     /\ UpdBatch(t, [rest EXCEPT
                            !.dl = IF out = "mkdir_failed" THEN @ ELSE @ + 1,
                            !.hydrated_seeded = IF out = "written" THEN @ + 1 ELSE @])
                     /\ files' = IF out = "written"
                                 THEN files \cup {Get(disk_path_from_public_path(path))}
                                 ELSE files
    /\ UNCHANGED <<pictograms, saved, library, settings, now, lastActivity, due,
                   runner, env>>

\* prefetch_once_internal in the request's task: load_prefetch_candidate_ids(..).await?
RunNowLoad(t) ==
    LET w == BatchOf(t) IN
    /\ task[t].pc = "batch"
    /\ w.pc = "p_load"
    /\ \E ok \in DbOutcomes :
        LET ids == load_prefetch_candidate_ids(w.batch_size) IN
        IF ~ok
        THEN Upd(t, Finish([task[t] EXCEPT !.batch = Some([w EXCEPT !.outcome = "aborted"])],
                           Err("StoreError", "candidates")))
        ELSE IF ids = <<>> THEN UpdBatch(t, [w EXCEPT !.pc = "p_record"])
        ELSE UpdBatch(t, [w EXCEPT !.pc = "p_check", !.ids = ids, !.i = 1])
    /\ UNCHANGED <<pictograms, files, saved, library, settings, now, lastActivity,
                   due, runner, env>>

\* prefetch_once_internal in the request's task: one id of the loop, up to the
\* call of get_or_fetch_by_id
RunNowCheck(t, c) ==
    LET w0 == BatchOf(t)
        id == w0.ids[w0.i]
        w == [w0 EXCEPT !.processed_ids = @ + 1]
    IN
    /\ task[t].pc = "batch"
    /\ w0.pc = "p_check"
    /\ \E ok \in DbOutcomes :
        IF ~ok
        THEN Upd(t, Finish([task[t] EXCEPT !.batch = Some([w EXCEPT !.outcome = "aborted"])],
                           Err("StoreError", "cache_check")))
        ELSE IF is_arasaac_id_cached_locally(pictograms, files, id)
        THEN UpdBatch(t, NextCandidate([w EXCEPT !.already_cached = @ + 1]))
        ELSE task' = [task EXCEPT
                        ![t] = [@ EXCEPT !.batch = Some([w EXCEPT !.pc = "p_resolve"])],
                        ![c] = [IdleTask EXCEPT !.op = "byId", !.via = "prefetch",
                                                !.pc = "ensure", !.language = S_en,
                                                !.id = id]]
    /\ UNCHANGED <<pictograms, files, saved, library, settings, now, lastActivity, due,
                   runner, env>>

\* prefetch_once_internal in the request's task: get_or_fetch_by_id has returned
RunNowAfterResolve(t, c) ==
    LET w == BatchOf(t)
        tr == task[c]
        got == /\ tr.svc.kind = "Ok"
               /\ tr.svc.val[1].local_file_path # None
               /\ local_path_exists(files, Get(tr.svc.val[1].local_file_path))
    IN
    /\ task[t].pc = "batch"
    /\ w.pc = "p_resolve"
    /\ tr.pc = "done"
    /\ task' = [task EXCEPT
                  ![t] = [@ EXCEPT !.batch = Some(NextCandidate(
                                [w EXCEPT !.downloaded = IF got THEN @ + 1 ELSE @,
                                          !.api = @ + tr.api, !.dl = @ + tr.dl]))],
                  ![c] = IdleTask]
    /\ UNCHANGED <<pictograms, files, saved, library, settings, now, lastActivity, due,
                   runner, env>>

\* prefetch_once_internal in the request's task: the UPDATE of last_run_at and
\* last_result_json, and the handler's answer
RunNowRecord(t) ==
    LET w == BatchOf(t)
        result == [processed_ids |-> w.processed_ids, downloaded |-> w.downloaded,
                   already_cached |-> w.already_cached,
                   hydrated_seeded |-> w.hydrated_seeded,
                   idle_seconds |-> w.idle]
    IN
    /\ task[t].pc = "batch"
    /\ w.pc = "p_record"
    /\ \E ok \in DbOutcomes :
        /\ settings' = IF ok /\ settings # None
                       THEN Some([Get(settings) EXCEPT !.last_run_at = Some(now),
                                                       !.last_result = Some(result)])
                       ELSE settings
        /\ Upd(t, Finish([task[t] EXCEPT !.batch = Some([w EXCEPT
                              !.outcome = IF ok THEN "ran" ELSE "record_failed"])],
                         IF ok THEN Ok(<<result>>) ELSE Err("StoreError", "record_run")))
    /\ UNCHANGED <<pictograms, files, saved, library, now, lastActivity, due, runner, env>>

(***************************************************************************)
(* Specifications.                                                         *)
(***************************************************************************)
Faulty ==
    [dbFaults |-> TRUE, netFaults |-> TRUE, fsFaults |-> TRUE, removal |-> TRUE,
     recategorize |-> FALSE, ops |-> {"search", "byId"}, langs |-> LangInputs,
     ids |-> IdInputs, users |-> Users, roles |-> Roles, store |-> <<>>, library |-> {},
     origin |-> Ids, config |-> DefaultConfig]

InitWith(e) ==
    /\ pictograms = e.store
    /\ files = {}
    /\ task = [t \in Tasks |-> IdleTask]
    /\ saved = <<>>
    /\ library = e.library
    /\ settings = None
    /\ now = 0
    /\ lastActivity = None
    /\ due = 0
    /\ runner = IdleWorker
    /\ env = e

ResolverStep(t) ==
    \/ StartSearch(t)
    \/ StartById(t)
    \/ EnsureTable(t)
    \/ QueryLocalById(t)
    \/ CheckLocalFile(t)
    \/ FetchById(t)
    \/ QueryLocal(t)
    \/ FetchBest(t)
    \/ FetchSearch(t)
    \/ UpsertSelect(t)
    \/ UpsertCheckFile(t)
    \/ DownloadSvg(t)
    \/ DownloadPng(t)
    \/ UpsertInsert(t)
    \/ RereadById(t)
    \/ RereadSearch(t)
    \/ RereadByIds(t)
    \/ Return(t)

\* One caller issuing requests one after the other, in an environment where the
\* store, the origin and the filesystem may fail and files may be removed.
Init == InitWith([Faulty EXCEPT !.langs = {<<"E", "N">>, <<"e">>}])

Next == ResolverStep("t1") \/ RemoveFile

Spec == Init /\ [][Next]_vars

\* One caller using the four browsing entry points, with the same failures but
\* nobody removing files.
BrowseEnv ==
    [Faulty EXCEPT !.ops = {"search", "byId", "newest", "keywords"}, !.removal = FALSE,
                   !.langs = {<<"E", "N">>, <<"e">>}]

InitBrowse == InitWith(BrowseEnv)

NextBrowse ==
    \/ ResolverStep("t1")
    \/ StartNewest("t1")
    \/ GetKeywords("t1")
    \/ FetchNew("t1")

SpecBrowse == InitBrowse /\ [][NextBrowse]_vars

\* get_or_fetch_by_id as the prefetch batch calls it.
NestedStep(t) ==
    \/ EnsureTable(t)
    \/ QueryLocalById(t)
    \/ CheckLocalFile(t)
    \/ FetchById(t)
    \/ UpsertSelect(t)
    \/ UpsertCheckFile(t)
    \/ DownloadSvg(t)
    \/ DownloadPng(t)
    \/ UpsertInsert(t)
    \/ RereadById(t)

\* GET /pictograms/{language}/id/{arasaac_id}, from the request to the answer.
ByIdStep(t) == StartById(t) \/ NestedStep(t) \/ Return(t)

\* Two callers resolving one id concurrently; the origin may change the
\* pictogram's category between fetches and may fail to serve an asset.
RaceEnv ==
    [dbFaults |-> FALSE, netFaults |-> TRUE, fsFaults |-> FALSE, removal |-> FALSE,
     recategorize |-> TRUE, ops |-> {"byId"}, langs |-> {<<"e">>}, ids |-> {1},
     users |-> {}, roles |-> Roles, store |-> <<>>, library |-> {},
     origin |-> Ids, config |-> DefaultConfig]

InitRace == InitWith(RaceEnv)

NextRace == ByIdStep("t1") \/ ByIdStep("t2")

SpecRace == InitRace /\ [][NextRace]_vars

\* The bookmark handlers, with a store that may fail.
BookmarkEnv == [Faulty EXCEPT !.ops = {}, !.removal = FALSE, !.ids = Ids]

InitBookmarks == InitWith(BookmarkEnv)

NextBookmarks == SaveRoute("t1") \/ UnsaveRoute("t1") \/ RecordUseRoute("t1") \/ Return("t1")

SpecBookmarks == InitBookmarks /\ [][NextBookmarks]_vars

\* The idle prefetch worker with an administrator changing the settings and a
\* user whose requests mark activity.  The asset of a system card is missing on
\* disk, and so is the file of a record the store has kept.
SchedLibrary ==
    {[arasaac_id |-> 1, is_system |-> TRUE,
      local_image_path |-> Some(PublicPath(<<"s">>, 1, "png"))],
     [arasaac_id |-> 2, is_system |-> FALSE, local_image_path |-> None]}

SchedStore ==
    <<UpsertRow(S_en, OriginItem(2, <<<<"A">>>>), Some(build_remote_png_url(2)),
                Some(PublicPath(<<"a">>, 2, "png")))>>

SchedEnv ==
    [dbFaults |-> TRUE, netFaults |-> TRUE, fsFaults |-> FALSE, removal |-> FALSE,
     recategorize |-> FALSE, ops |-> {}, langs |-> {}, ids |-> {1}, users |-> {"u1"},
     roles |-> {"parent"},
     store |-> SchedStore, library |-> SchedLibrary,
     origin |-> Ids, config |-> DefaultConfig]

\* The settings the process is configured with.
SchedConfigs ==
    {[enabled |-> TRUE, idle_minutes |-> 1, batch_size |-> 1],
     [enabled |-> TRUE, idle_minutes |-> 2, batch_size |-> 2],
     [enabled |-> FALSE, idle_minutes |-> 1, batch_size |-> 1]}

InitSched == \E c \in SchedConfigs : InitWith([SchedEnv EXCEPT !.config = c])

NextSched ==
    \/ Advance
    \/ WorkerTick
    \/ WorkerEval
    \/ SeedQuery
    \/ SeedStep
    \/ LoadCandidates
    \/ CheckCandidate
    \/ NestedStep("w")
    \/ AfterResolve
    \/ RecordRun
    \/ RecordUseRoute("t1")
    \/ Return("t1")

SpecSched == InitSched /\ [][NextSched]_vars

\* The worker's task: the runtime runs it whenever the call it awaits has
\* completed, and every call completes (requests to the origin time out).
WorkerStep ==
    \/ WorkerTick
    \/ WorkerEval
    \/ SeedQuery
    \/ SeedStep
    \/ LoadCandidates
    \/ CheckCandidate
    \/ NestedStep("w")
    \/ AfterResolve
    \/ RecordRun

\* The worker alone with the clock: the store and the origin may fail.
LoopEnv ==
    [SchedEnv EXCEPT !.users = {},
                     !.config = [enabled |-> TRUE, idle_minutes |-> 1, batch_size |-> 2]]

InitLoop == InitWith(LoopEnv)

NextLoop == Advance \/ WorkerStep

SpecLoop == InitLoop /\ [][NextLoop]_vars /\ WF_vars(WorkerStep)

\* One interval of the ticker passes with no end to the run: the clock reads
\* MaxNow for every later time, and at most MaxDue ticks are kept pending.
MaxDue == 2

Elapse ==
    /\ due < MaxDue
    /\ now' = IF now < MaxNow THEN now + IntervalSeconds ELSE now
    /\ due' = due + 1
    /\ UNCHANGED <<pictograms, files, task, saved, library, settings, lastActivity,
                   runner, env>>

\* The worker left alone for ever: prefetch enabled with batch size 1 over two
\* referenced ids, no foreground request, and a store, an origin and a
\* filesystem that never fail.  The file of the record of id 1 is missing.
ProgressStore ==
    <<UpsertRow(S_en, OriginItem(1, <<<<"A">>>>), Some(build_remote_png_url(1)),
                Some(PublicPath(<<"a">>, 1, "png")))>>

ProgressEnv ==
    [SchedEnv EXCEPT !.dbFaults = FALSE, !.netFaults = FALSE, !.users = {},
                     !.store = ProgressStore,
                     !.config = [enabled |-> TRUE, idle_minutes |-> 1, batch_size |-> 1]]

InitProgress == InitWith(ProgressEnv)

NextProgress == Elapse \/ WorkerStep

SpecProgress ==
    InitProgress /\ [][NextProgress]_vars /\ WF_vars(WorkerStep) /\ WF_vars(Elapse)

\* The settings routes beside the worker, over an empty library and store; the
\* configuration holds values outside the ranges of the settings.
SettingsEnv ==
    [Faulty EXCEPT !.netFaults = FALSE, !.fsFaults = FALSE, !.removal = FALSE,
                   !.ops = {}, !.ids = {1}, !.users = {"u1"}, !.roles = {"parent"},
                   !.config = [enabled |-> TRUE, idle_minutes |-> 0, batch_size |-> 5000]]

InitSettings == InitWith(SettingsEnv)

NextSettings ==
    \/ Advance
    \/ WorkerTick
    \/ WorkerEval
    \/ SeedQuery
    \/ SeedStep
    \/ LoadCandidates
    \/ RecordRun
    \/ GetSettings("t1")
    \/ UpdateSettings("t1")
    \/ RunNow("t1")
    \/ Return("t1")

SpecSettings == InitSettings /\ [][NextSettings]_vars

\* Two requests marking activity while time passes and the worker reads the clock.
ClockEnv == [Faulty EXCEPT !.ops = {}, !.removal = FALSE]

InitClock == InitWith(ClockEnv)

NextClock ==
    \/ Advance
    \/ MarkRead("t1") \/ MarkStore("t1")
    \/ MarkRead("t2") \/ MarkStore("t2")
    \/ WorkerTick
    \/ WorkerEval

SpecClock == InitClock /\ [][NextClock]_vars

\* Ranking on its own: a list as the local query returns it, and a query.
RankDto(id, keywords, categories, tags, description) ==
    [arasaac_id |-> id, keywords |-> keywords, category |-> First(categories),
     categories |-> categories, tags |-> tags, language |-> S_en, image_url |-> None,
     local_file_path |-> None, width |-> None, height |-> None,
     license |-> DEFAULT_LICENSE, description |-> description]

W_apple == <<"a", "p", "p", "l", "e">>
W_pie == <<"p", "i", "e">>
W_green == <<"g", "r", "e", "e", "n">>
W_tree == <<"t", "r", "e", "e">>

ApplePie == RankDto(1, <<W_apple \o Sp \o W_pie>>, <<>>, <<>>, None)
Apple == RankDto(2, <<W_apple>>, <<>>, <<>>, None)
GreenAppleTree == RankDto(3, <<W_green \o Sp \o W_apple \o Sp \o W_tree>>, <<>>, <<>>, None)
Described == RankDto(4, <<W_apple>>, <<W_pie>>, <<<<"a">>>>, Some(<<"b">>))

RankItems == {ApplePie, Apple, GreenAppleTree, Described}

\* The lists of at most three different items.
RankLists ==
    {<<>>} \cup {<<a>> : a \in RankItems}
    \cup {l \in [1..2 -> RankItems] : l[1] # l[2]}
    \cup {l \in [1..3 -> RankItems] : l[1] # l[2] /\ l[1] # l[3] /\ l[2] # l[3]}

RankQueries ==
    {W_apple, <<"A">> \o Tail(W_apple), W_green \o Sp \o W_tree,
     W_apple \o Sp \o W_pie \o <<" ", "a", " ", "b">>}

InitRank ==
    /\ pictograms = <<>>
    /\ files = {}
    /\ \E items \in RankLists, query \in RankQueries :
        task = [t \in Tasks |->
                    IF t = "t1"
                    THEN [IdleTask EXCEPT !.op = "rank", !.pc = "rank", !.local = items,
                                          !.query = query]
                    ELSE IdleTask]
    /\ saved = <<>>
    /\ library = {}
    /\ settings = None
    /\ now = 0
    /\ lastActivity = None
    /\ due = 0
    /\ runner = IdleWorker
    /\ env = Faulty

\* search_local_first: sort_by_fuzzy_score(&mut local, query); return Ok(local)
RankLocal(t) ==
    LET tr == task[t]
        sorted == Ok(sort_by_fuzzy_score(tr.local, tr.query))
    IN
    /\ tr.pc = "rank"
    /\ Upd(t, [tr EXCEPT !.pc = "done", !.svc = sorted, !.resp = sorted])
    /\ UNCHANGED <<pictograms, files, saved, library, settings, now, lastActivity, due,
                   runner, env>>

NextRank == RankLocal("t1")

SpecRank == InitRank /\ [][NextRank]_vars

\* The operations that write records and files, interleaved: one caller using
\* search, resolve by id and newest while prefetch batches run, started by hand.
\* The origin and the filesystem may fail; nobody removes a file.
EngineLibrary ==
    {[arasaac_id |-> 1, is_system |-> TRUE,
      local_image_path |-> Some(PublicPath(<<"s">>, 1, "png"))]}

EngineEnv ==
    [dbFaults |-> FALSE, netFaults |-> TRUE, fsFaults |-> TRUE, removal |-> FALSE,
     recategorize |-> FALSE, ops |-> {"search", "byId", "newest"}, langs |-> {<<"e">>},
     ids |-> {1}, users |-> {}, roles |-> {"parent"}, store |-> <<>>,
     library |-> EngineLibrary, origin |-> {1}, config |-> DefaultConfig]

InitEngine == InitWith(EngineEnv)

NextEngine ==
    \/ ResolverStep("t1")
    \/ StartNewest("t1")
    \/ FetchNew("t1")
    \/ RunNow("t2")
    \/ Return("t2")
    \/ SeedQuery
    \/ SeedStep
    \/ LoadCandidates
    \/ CheckCandidate
    \/ NestedStep("w")
    \/ AfterResolve
    \/ RecordRun

SpecEngine == InitEngine /\ [][NextEngine]_vars

\* The worker with batches to run while an administrator changes the settings.
ToggleEnv ==
    [SchedEnv EXCEPT !.dbFaults = FALSE, !.netFaults = FALSE,
                     !.config = [enabled |-> TRUE, idle_minutes |-> 1, batch_size |-> 1]]

InitToggle == InitWith(ToggleEnv)

NextToggle ==
    \/ Advance
    \/ WorkerTick
    \/ WorkerEval
    \/ SeedQuery
    \/ SeedStep
    \/ LoadCandidates
    \/ CheckCandidate
    \/ NestedStep("w")
    \/ AfterResolve
    \/ RecordRun
    \/ UpdateSettings("t1")
    \/ Return("t1")

SpecToggle == InitToggle /\ [][NextToggle]_vars

\* The local text query on its own: a store of three records and a query.
LocalRow(id, keywords_text) ==
    [arasaac_id |-> id, keywords_text |-> keywords_text, category |-> None,
     categories_text |-> None, tags_text |-> None, language |-> S_en, image_url |-> None,
     local_file_path |-> None, width |-> None, height |-> None,
     license |-> DEFAULT_LICENSE, description |-> None]

LocalStores ==
    {<<>>,
     <<LocalRow(1, <<"a", " ", "b", "c", "d">>)>>,
     <<LocalRow(1, <<"a", "b", "c", "d">>), LocalRow(2, <<"b", "c", "d", "e">>)>>,
     <<LocalRow(2, <<"a", "b", "c">>), LocalRow(1, <<"a", " ", "b", " ", "c">>)>>}

LocalQueries ==
    {<<"a", "b", "c">>, <<"a", "b", "c", "d">>, <<"a", "b", " ", "c", "d">>,
     <<"a", " ", "b", "c", "d">>, <<"a", " ", "b", " ", "c">>, <<"a", "-", "b", "c">>,
     <<"b", "c", "d", "e">>}

InitLocal ==
    /\ \E rows \in LocalStores : pictograms = rows
    /\ files = {}
    /\ \E query \in LocalQueries :
        task = [t \in Tasks |->
                    IF t = "t1"
                    THEN [IdleTask EXCEPT !.op = "search", !.pc = "q_local",
                                          !.language = S_en, !.query = query,
                                          !.dbReady = TRUE]
                    ELSE IdleTask]
    /\ saved = <<>>
    /\ library = {}
    /\ settings = None
    /\ now = 0
    /\ lastActivity = None
    /\ due = 0
    /\ runner = IdleWorker
    /\ env = Faulty

NextLocal == QueryLocal("t1")

SpecLocal == InitLocal /\ [][NextLocal]_vars

(***************************************************************************)
(* Properties.                                                             *)
(***************************************************************************)
Done(t) == task[t].pc = "done" /\ task[t].role = "parent"

\* The store holds a record for id whose asset path resolves to an existing file.
Cached(id) ==
    LET row == RowOf(pictograms, id) IN
    /\ row # None
    /\ Get(row).local_file_path # None
    /\ local_path_exists(files, Get(Get(row).local_file_path))

\* C1: a resolveById that finds a record whose asset file exists makes no
\* request to the origin, writes neither a record nor a file, and returns exactly
\* the stored record (so that consecutive hits return identical metadata); with
\* a usable store, the origin is only consulted for an id that is not cached.
C1_CacheHit ==
    \A t \in Tasks :
        LET tr == task[t] IN
        /\ (Done(t) /\ tr.op = "byId" /\ tr.hit) =>
                /\ tr.api = 0 /\ tr.dl = 0
                /\ ~tr.wroteRow /\ ~tr.wroteFile
                /\ tr.svc = Ok(query_local_by_id(pictograms, tr.id))
        /\ (tr.op = "byId" /\ tr.pc = "fetch_id" /\ tr.dbReady) => ~Cached(tr.id)

C1_Witness ==
    \E t \in Tasks : Done(t) /\ task[t].op = "byId" /\ task[t].hit /\ Cached(task[t].id)

\* C5: a resolveById whose origin fetch is answered 429 fails with the
\* RateLimited kind, and that kind reaches the caller of the by-id entry point.
C5_RateLimitSurfaced ==
    \A t \in Tasks :
        (Done(t) /\ task[t].op = "byId" /\ task[t].origin = "too_many_requests") =>
            /\ task[t].svc.kind = "RateLimited"
            /\ task[t].resp.kind = "RateLimited"

\* C6: search and resolveById never fail because a Local Store step failed.
C6_StoreFailureMasked ==
    \A t \in Tasks : Done(t) => task[t].svc.kind # "StoreError"

C8_BadRequestIffEmpty ==
    \A t \in Tasks :
        (Done(t) /\ task[t].op = "search") =>
            (task[t].svc.kind = "BadRequest" <=> Trim(task[t].query) = <<>>)

\* C9: resolveById with a non-positive id answers BadRequest without a request
\* to the origin; when the origin has no such id (404, or an empty list) it
\* answers NotFound; in both cases the call wrote no record and no file.
C9_InputAndMissErrors ==
    \A t \in Tasks :
        LET tr == task[t] IN
        (Done(t) /\ tr.op = "byId") =>
            /\ tr.id <= 0 => tr.svc = Err("BadRequest", "input") /\ tr.api = 0
            /\ tr.origin \in {"not_found", "empty"} => tr.svc = Err("NotFound", "origin")
            /\ (tr.id <= 0 \/ tr.origin \in {"not_found", "empty"}) =>
                    tr.dl = 0 /\ ~tr.wroteRow /\ ~tr.wroteFile

C9_Witness ==
    \E t \in Tasks :
        /\ Done(t) /\ task[t].op = "byId" /\ task[t].id > 0
        /\ task[t].origin = "not_found" /\ task[t].svc.kind = "NotFound"
        /\ pictograms # <<>>

TickApi == runner.api + task["w"].api
TickDl == runner.dl + task["w"].dl

BatchStarted == runner.outcome \in {"running", "ran", "aborted", "record_failed"}

\* C3 (as amended): a tick evaluated with less idle time than idle_minutes * 60
\* seconds starts no batch and sends nothing to the origin; a tick evaluated with
\* at least that idle time, prefetch enabled, runs a batch over at most
\* batch_size ids and sends at most batch_size metadata requests to the origin.
C3_IdleGating ==
    LET row == Get(settings) IN
    /\ (runner.outcome = "not_idle" \/ BatchStarted) => settings # None
    /\ runner.outcome = "not_idle" =>
            /\ runner.idle < row.idle_minutes * 60
            /\ runner.pc = "w_wait" /\ task["w"].pc = "idle"
            /\ runner.processed_ids = 0 /\ TickApi = 0 /\ TickDl = 0
    /\ BatchStarted =>
            /\ row.enabled
            /\ runner.idle >= row.idle_minutes * 60
            /\ runner.batch_size = row.batch_size
            /\ runner.processed_ids <= row.batch_size
            /\ TickApi <= row.batch_size

C3_Witness ==
    /\ runner.outcome = "ran"
    /\ runner.api = runner.batch_size
    /\ runner.dl > runner.batch_size
    /\ Cardinality({r.arasaac_id : r \in library} \cup IdsOf(pictograms)) > runner.batch_size

\* C3 (as stated): a tick that runs a batch sends at most batch_size requests to
\* the origin, whatever they ask for.
C3_AtMostBatchSizeRequests ==
    BatchStarted => TickApi + TickDl <= runner.batch_size

\* C4: the worker takes a tick only between ticks, when the evaluation and the
\* batch of the tick before are over, and nothing of a batch runs between ticks.
C4_TicksSerialized ==
    /\ [](runner.pc \in {"w_wait", "w_eval"} => task["w"].pc = "idle")
    /\ [][due' < due => (runner.pc = "w_wait" /\ runner'.pc = "w_eval")]_vars

C4_Witness == due > 0 /\ runner.pc = "p_resolve" /\ task["w"].pc = "u_ins"

\* C10: saving a bookmark that exists leaves its use counter and every other
\* bookmark as they are; its label stays when the request has none and becomes
\* the request's label otherwise.
C10_ResaveIdempotent ==
    [][\A t \in Tasks :
        LET tr == task'[t] IN
        (/\ task[t].pc = "idle" /\ tr.pc = "done" /\ tr.op = "save"
         /\ tr.svc.kind = "Ok" /\ HasBookmark(saved, tr.user, tr.id))
        => /\ Len(saved') = Len(saved)
           /\ \A i \in 1..Len(saved) :
                saved'[i] = IF SameBookmark(saved[i], tr.user, tr.id)
                            THEN [saved[i] EXCEPT
                                    !.label = IF tr.label = None THEN @ ELSE tr.label]
                            ELSE saved[i]]_vars

C10_Witness ==
    \E t \in Tasks, i \in 1..Len(saved) :
        /\ Done(t) /\ task[t].op = "save" /\ task[t].svc.kind = "Ok"
        /\ task[t].label = None
        /\ SameBookmark(saved[i], task[t].user, task[t].id)
        /\ saved[i].label # None /\ saved[i].used_count > 0

\* The use counter of the bookmark of (user_id, arasaac_id), None when there is none.
UsedCount(rows, user_id, arasaac_id) ==
    IF HasBookmark(rows, user_id, arasaac_id)
    THEN Some(rows[CHOOSE i \in 1..Len(rows) :
                     SameBookmark(rows[i], user_id, arasaac_id)].used_count)
    ELSE None

\* The bookmark request that a step answers, for the step that takes task t from
\* idle to done.
Answers(t, op) ==
    task[t].pc = "idle" /\ task'[t].pc = "done" /\ task'[t].op = op

\* C11: there is never more than one bookmark per (user, pictogram id), and the
\* use counter of a pair counts the recordUse calls carried out for that pair
\* since its bookmark was created: it is 0 when the bookmark appears (also after
\* an unsave), grows by exactly one with each recordUse of the pair that the
\* store carried out, and is changed by no other call and by no call for
\* another pair.
C11_OneEntryCountingUses ==
    [][/\ \A i, j \in 1..Len(saved') :
            SameBookmark(saved'[i], saved'[j].user_id, saved'[j].arasaac_id) => i = j
       /\ \A u \in Users, id \in Ids :
            LET before == UsedCount(saved, u, id)
                after == UsedCount(saved', u, id)
                used == \E t \in Tasks :
                            /\ Answers(t, "use") /\ task'[t].svc.kind = "Ok"
                            /\ task'[t].user = u /\ task'[t].id = id
            IN after # None =>
                 after = IF before = None THEN Some(0)
                         ELSE IF used THEN Some(Get(before) + 1)
                         ELSE before]_vars

\* Two users bookmarked the same pictogram; one used it MaxUses times, the
\* other never.
C11_Witness ==
    \E t \in Tasks, i, j \in 1..Len(saved) :
        /\ Done(t) /\ task[t].op = "use" /\ task[t].svc.kind = "Ok"
        /\ SameBookmark(saved[i], task[t].user, task[t].id)
        /\ saved[i].used_count = MaxUses
        /\ saved[j].arasaac_id = saved[i].arasaac_id
        /\ saved[j].user_id # saved[i].user_id
        /\ saved[j].used_count = 0

\* C12: unsave and recordUse for a pair that has no bookmark leave the whole
\* table as it is, and they answer success whenever the statement reached the
\* store and the store carried it out (the only other answers are the store's
\* failure and the route's refusal of a child's unsave).
C12_AbsentIsNoOp ==
    [][\A t \in Tasks :
        LET tr == task'[t] IN
        ((Answers(t, "unsave") \/ Answers(t, "use"))
         /\ ~HasBookmark(saved, tr.user, tr.id))
        => /\ saved' = saved
           /\ \/ tr.svc.kind = "Ok"
              \/ tr.svc = Err("StoreError", "saved")
              \/ tr.op = "unsave" /\ tr.role = "child"
                 /\ tr.svc = Err("Forbidden", "route")]_vars

\* A recordUse for a pair without bookmark was answered with success while
\* another bookmark of the same user exists.
C12_Witness ==
    \E t \in Tasks :
        /\ Done(t) /\ task[t].op = "use" /\ task[t].svc.kind = "Ok"
        /\ ~HasBookmark(saved, task[t].user, task[t].id)
        /\ \E i \in 1..Len(saved) : saved[i].user_id = task[t].user

\* The three fields of a settings row that an administrator sets.
Tunables(row) == <<row.enabled, row.idle_minutes, row.batch_size>>

\* C13: the stored idle_minutes is always in 1..1440 and the stored batch_size in
\* 1..2000, whether the row was created from the configuration or written by
\* updateSettings; an update whose input lies outside the range is not refused:
\* it succeeds and stores the nearest bound.
C13_SettingsInRange ==
    /\ \A i \in 1..Len(settings) :
        /\ settings[i].idle_minutes \in 1..1440
        /\ settings[i].batch_size \in 1..2000
    /\ \A t \in Tasks :
        (task[t].pc = "done" /\ task[t].op = "updateSettings")
        => /\ task[t].svc.kind = "Ok" \/ task[t].svc = Err("StoreError", "settings")
           /\ task[t].svc.kind = "Ok" =>
                LET body == Get(task[t].body)
                    stored(v, hi) == IF v < 1 THEN 1 ELSE IF v > hi THEN hi ELSE v
                IN /\ body.idle_minutes # None =>
                        Get(settings).idle_minutes = stored(Get(body.idle_minutes), 1440)
                   /\ body.batch_size # None =>
                        Get(settings).batch_size = stored(Get(body.batch_size), 2000)
                   /\ task[t].svc.val[1].idle_minutes = Get(settings).idle_minutes
                   /\ task[t].svc.val[1].batch_size = Get(settings).batch_size

\* An update with both inputs above their ranges succeeded on a row that a
\* batch had already recorded its result in.
C13_Witness ==
    \E t \in Tasks :
        /\ task[t].pc = "done" /\ task[t].op = "updateSettings"
        /\ task[t].svc.kind = "Ok"
        /\ Get(task[t].body).idle_minutes = Some(5000)
        /\ Get(settings).idle_minutes = 1440 /\ Get(settings).batch_size = 2000
        /\ Get(settings).last_run_at # None

\* C14: the settings table never holds more than one row and never loses its
\* row; a row created by anything but updateSettings holds the configuration's
\* defaults (brought into range); and once the row exists, a step that changes
\* enabled, idle_minutes or batch_size is an updateSettings: getSettings, the
\* worker's ticks and batches, runNow and the repeated ensure leave them alone.
C14_SettingsSingleton ==
    [][/\ Len(settings') <= 1
       /\ settings # None => settings' # None
       /\ (settings = None /\ settings' # None
           /\ ~\E t \in Tasks : Answers(t, "updateSettings"))
          => Tunables(Get(settings')) =
                <<env.config.enabled,
                  IF env.config.idle_minutes < 1 THEN 1
                  ELSE IF env.config.idle_minutes > 1440 THEN 1440
                  ELSE env.config.idle_minutes,
                  IF env.config.batch_size < 1 THEN 1
                  ELSE IF env.config.batch_size > 2000 THEN 2000
                  ELSE env.config.batch_size>>
       /\ (settings # None /\ Tunables(Get(settings')) # Tunables(Get(settings)))
          => \E t \in Tasks : Answers(t, "updateSettings")]_vars

\* A batch run by runNow has ended and recorded its result in a row whose three
\* fields an earlier update had set to other values than the defaults.
C14_Witness ==
    \E t \in Tasks :
        /\ task[t].pc = "done" /\ task[t].op = "runNow" /\ task[t].svc.kind = "Ok"
        /\ settings # None
        /\ Get(settings).last_result = Some(task[t].svc.val[1])
        /\ Tunables(Get(settings)) = <<TRUE, 2, 2>>

\* C15: a step in which a route handler takes up a request sets the activity
\* clock to the current time.
C15_EveryEntryPointMarksActivity ==
    [][\A t \in Tasks :
        (task[t].pc = "idle" /\ task'[t].pc # "idle" /\ task'[t].via = "route")
        => lastActivity' = Some(now)]_vars

\* C16: the activity clock never moves backwards, however the marking calls
\* interleave.
C16_ClockMonotonic ==
    [][(lastActivity # None /\ lastActivity' # None)
       => Get(lastActivity') >= Get(lastActivity)]_vars

\* The search-type routes answer a list whatever the service returned: an empty
\* one whenever the service failed.
ListRoutesNeverFail ==
    \A t \in Tasks :
        (task[t].pc = "done" /\ task[t].via = "route"
         /\ task[t].op \in {"search", "newest", "keywords"})
        => /\ task[t].resp.kind = "Ok"
           /\ task[t].svc.kind \notin {"Ok", "none"} => task[t].resp.val = <<>>

\* C17: search, getNewest and getKeywordList never answer an error (a failed
\* service call becomes an empty list), while resolveById answers NotFound when
\* the origin does not know the id and a different, rate-limit outcome when the
\* origin answered 429.
C17_FailuresMaskedExceptById ==
    /\ ListRoutesNeverFail
    /\ \A t \in Tasks :
        (Done(t) /\ task[t].op = "byId" /\ task[t].via = "route") =>
            /\ task[t].origin \in {"not_found", "empty"} => task[t].resp.kind = "NotFound"
            /\ task[t].origin = "too_many_requests"
                => task[t].resp.kind \notin {"Ok", "NotFound"}

\* The place of item d in the list xs.
IndexIn(xs, d) == CHOOSE i \in 1..Len(xs) : xs[i] = d

\* The ranked list holds the items of the input by descending score, items of
\* equal score in the order of the input.
RankedStably(items, query, out) ==
    /\ Len(out) = Len(items)
    /\ \A i \in 1..Len(items) : \E j \in 1..Len(out) : out[j] = items[i]
    /\ \A i, j \in 1..Len(out) :
        i < j => LET si == fuzzy_score(query, Haystack(out[i]))
                     sj == fuzzy_score(query, Haystack(out[j]))
                 IN si > sj \/ (si = sj /\ IndexIn(items, out[i]) < IndexIn(items, out[j]))

\* C18: a ranked list is in descending order of score, ties in their prior
\* order; a record whose only text is one keyword scores 1000 when the keyword
\* equals the query (case-insensitively), 700 when it starts with it, 400 when
\* it contains it, else 80 per query token it contains; and the
\* records "apple pie", "apple", "green apple tree" with the query "apple" come
\* out as "apple", "apple pie", "green apple tree".
C18_FuzzyRanking ==
    \A t \in Tasks :
        (task[t].pc = "done" /\ task[t].op = "rank") =>
            LET items == task[t].local
                query == task[t].query
                out == task[t].svc.val
                q == ToLower(query)
            IN /\ RankedStably(items, query, out)
               /\ \A i \in 1..Len(items) :
                    (Len(items[i].keywords) = 1 /\ items[i].categories = <<>>
                     /\ items[i].tags = <<>> /\ items[i].description = None)
                    => LET text == ToLower(items[i].keywords[1]) IN
                       fuzzy_score(query, Haystack(items[i])) =
                           IF text = q THEN 1000
                           ELSE IF StartsWith(text, q) THEN 700
                           ELSE IF Contains(text, q) THEN 400
                           ELSE 80 * CountHits(SplitWhitespace(q), text)
               /\ (items = <<ApplePie, Apple, GreenAppleTree>> /\ query = W_apple)
                  => out = <<Apple, ApplePie, GreenAppleTree>>

\* The order of a ranked list, taken alone.
RankOrder ==
    \A t \in Tasks :
        (task[t].pc = "done" /\ task[t].op = "rank")
        => RankedStably(task[t].local, task[t].query, task[t].svc.val)

\* Every whitespace-separated token of the text has at least n characters.
TokensAtLeast(text, n) ==
    \A i \in 1..Len(SplitWhitespace(text)) : Len(SplitWhitespace(text)[i]) >= n

\* C19: the local text query uses full-text matching exactly when the query has
\* at least 4 characters and each of its tokens at least 2; otherwise, and when
\* the full-text match finds nothing, it answers what substring matching finds;
\* it never answers more than 60 rows.
C19_LocalSearchSelection ==
    \A t \in Tasks :
        LET tr == task[t] IN
        tr.matching # "none" =>
            /\ tr.matching \in {"fulltext", "fulltext_then_like"}
                <=> (Len(tr.query) >= 4 /\ TokensAtLeast(tr.query, 2))
            /\ (tr.matching # "fulltext" /\ tr.svc.kind = "Ok")
                => tr.svc.val = sort_by_fuzzy_score(
                                    query_local_like(pictograms, Lang(tr), tr.query),
                                    tr.query)
            /\ tr.svc.kind = "Ok" => Len(tr.svc.val) <= 60

\* The rows of the pictograms table that carry a local asset path.
WithPath == {i \in 1..Len(pictograms) : pictograms[i].local_file_path # None}

\* C20: while nobody removes files, every record with a local asset path refers
\* to a file that exists on disk, whatever search, resolve by id, newest and the
\* prefetch batches have done and however they interleave.
C20_RecordImpliesFile ==
    \A i \in WithPath : local_path_exists(files, Get(pictograms[i].local_file_path))

\* A prefetch batch has downloaded an asset and the caller's search has written
\* the record that carries its path.
C20_Witness ==
    /\ WithPath # {}
    /\ runner.outcome = "ran" /\ runner.downloaded > 0
    /\ task["t1"].pc = "done" /\ task["t1"].op = "search" /\ task["t1"].wroteRow

\* The local asset path the table holds for an id: None without a row.
PathOf(rows, id) == IF RowOf(rows, id) = None THEN None ELSE Get(RowOf(rows, id)).local_file_path

\* C21: once the record of an id carries a local asset path, every later upsert
\* of that id leaves the record with the same path.
C21_PathStable ==
    [][\A id \in Ids : PathOf(pictograms, id) # None
                        => PathOf(pictograms', id) = PathOf(pictograms, id)]_vars

\* The persisted enabled flag is false.
Disabled == settings # None /\ ~Get(settings).enabled

\* The worker is between the start of a batch and its end.
Running == runner.pc \notin {"w_wait", "w_eval"}

\* C22 (as stated): while the persisted enabled flag is false the scheduler is
\* never running a batch, so that no tick calls the origin, writes a file, upserts
\* a record or changes the last run.
C22_NeverRunningWhileDisabled == Disabled => ~Running

\* C22 (as amended): a tick evaluated while the persisted enabled flag is false
\* starts no batch and changes neither records, files nor the settings row, and a
\* tick starts a batch only with the flag read as true; a batch started before
\* the flag was cleared runs to its end.
C22_DisabledTickStartsNothing ==
    [][runner.pc = "w_eval" /\ runner'.pc # "w_eval"
        => /\ Disabled => /\ runner'.pc = "w_wait"
                          /\ runner'.outcome \in {"disabled", "settings_failed"}
                          /\ UNCHANGED <<pictograms, files, settings, task>>
           /\ runner'.pc # "w_wait" => Get(settings').enabled]_vars

\* A tick has been skipped because an administrator had cleared the flag.
C22_Witness == Disabled /\ runner.outcome = "disabled"

\* C23: every batch that has started records its result and the time of the run
\* in the settings row before the worker waits for the next tick, whatever the
\* store answered during the batch.
C23_EveryBatchRecorded ==
    [][Running /\ runner'.pc = "w_wait"
        => /\ runner'.outcome = "ran"
           /\ settings' # None
           /\ Get(settings').last_run_at = Some(now)
           /\ Get(settings').last_result # None
           /\ Get(Get(settings').last_result).processed_ids = runner'.processed_ids]_vars

\* C24: the worker's loop never ends: whatever failed, the worker comes back to
\* waiting for a tick, and a tick that is due is taken up.
C24_NoTerminalState ==
    /\ [](runner.pc # "w_wait" => <>(runner.pc = "w_wait"))
    /\ []((runner.pc = "w_wait" /\ due > 0) => <>(runner.pc = "w_eval"))

\* The worker waits after a tick that failed, and another tick is due.
C24_Witness ==
    /\ runner.pc = "w_wait"
    /\ runner.outcome \in {"settings_failed", "aborted", "record_failed"}
    /\ due > 0

\* C25: no failure on one id ends a batch: while candidate ids remain after the
\* current one, the batch goes on, whether the cache check or the resolution of
\* the current id failed.
C25_BatchSurvivesIdFailure ==
    [][(runner.pc \in {"p_check", "p_resolve"} /\ runner.i < Len(runner.ids))
        => runner'.pc # "w_wait"]_vars

\* The ids referenced by the card library, the bookmarks or the records.
Referenced == {r.arasaac_id : r \in library} \cup IdsOf(saved) \cup IdsOf(pictograms)

Min(a, b) == IF a <= b THEN a ELSE b

\* The ids of a batch past its candidate query.
BatchLoaded == runner.pc \in {"p_check", "p_resolve", "p_record"} \/ runner.outcome = "ran"

\* C26: the ids of a batch are the k smallest referenced ids in ascending order,
\* k being the lesser of their number and of the batch size clamped to 1..2000;
\* the recorded result has processed_ids = k and
\* already_cached + downloaded <= processed_ids.
C26_CandidateSelection ==
    LET ids == runner.ids
        S == {ids[i] : i \in 1..Len(ids)}
        k == Min(Cardinality(Referenced), Min(Max(runner.batch_size, 1), 2000))
    IN
    /\ BatchLoaded =>
        /\ Len(ids) = k
        /\ \A i, j \in 1..Len(ids) : i < j => ids[i] < ids[j]
        /\ S \subseteq Referenced
        /\ \A x \in S, y \in Referenced \ S : x < y
    /\ runner.outcome = "ran" =>
        LET result == Get(Get(settings).last_result) IN
        /\ result.processed_ids = k
        /\ result.already_cached + result.downloaded <= result.processed_ids

\* A batch over two referenced ids with batch size 1 has recorded its result.
C26_Witness ==
    /\ runner.outcome = "ran"
    /\ Cardinality(Referenced) = 2
    /\ runner.batch_size = 1
    /\ Get(Get(settings).last_result).processed_ids = 1

\* The origin has served the id the worker resolved: its record and file are there.
Served == task["w"].pc = "done" => (task["w"].svc.kind = "Ok" /\ Cached(task["w"].id))

\* C27: with prefetch enabled and the origin serving every id, if the system
\* stays idle so that batches keep running, every referenced id that is not
\* cached becomes cached after finitely many ticks, also when there are more
\* referenced ids than the batch size.
C27_PrefetchProgress ==
    ([]<>(runner.pc = "p_record") /\ []Served)
        => \A id \in Ids : (id \in Referenced /\ ~Cached(id)) ~> Cached(id)

\* C28: whenever the worker sends a request to the origin, the time elapsed since
\* the last foreground activity is at least the threshold of the tick: activity
\* that arrives during a batch stops the batch's requests.
C28_OriginCallsOnlyWhenIdle ==
    [][(TickApi' > TickApi \/ TickDl' > TickDl) => idle_seconds >= runner.required]_vars

\* C29: when the SVG is not taken and the PNG request ends in a non-success
\* status, the download yields the origin's PNG address without a local path and
\* without an error; the record is stored with a null path and resolve by id
\* answers it; a record with a null path is never a cache hit: a later resolve
\* by id that reads it asks the origin again.
C29_PartialMaterialization ==
    [][\A t \in Tasks :
        LET tr == task[t]
            tn == task'[t]
        IN
        /\ (tr.pc = "u_png" /\ tn.pc = "u_ins" /\ tn.asset.path = None)
            => /\ tn.asset.url = Some(build_remote_png_url(tr.remote[tr.idx].id))
               /\ files' = files
        /\ (tr.pc = "u_ins" /\ tr.asset.path = None /\ tn.pc # "u_ins")
            => \/ pictograms' = pictograms
               \/ /\ RowOf(pictograms', tr.remote[tr.idx].id) # None
                  /\ PathOf(pictograms', tr.remote[tr.idx].id) = None
        /\ (tr.pc = "reread" /\ tn.pc = "done" /\ PathOf(pictograms, tr.id) = None
            /\ RowOf(pictograms, tr.id) # None /\ tn.svc.kind # "StoreError")
            => /\ tn.svc.kind = "Ok"
               /\ tn.svc.val[1].arasaac_id = tr.id
               /\ tn.svc.val[1].local_file_path = None
        /\ (tr.pc = "q_id" /\ tn.pc # "q_id" /\ RowOf(pictograms, tr.id) # None
            /\ PathOf(pictograms, tr.id) = None)
            => (tn.pc = "fetch_id" \/ tn.svc.kind = "StoreError")
        /\ (tn.pc = "done" /\ tn.op = "byId" /\ tn.svc.kind = "Ok"
            /\ tn.svc.val[1].local_file_path = None)
            => (~tn.hit /\ tn.api = 1)]_vars

\* A resolve by id is about to ask the origin for an id whose record is stored
\* with a null path.
C29_Witness ==
    \E t \in Tasks :
        /\ task[t].op = "byId" /\ task[t].pc = "fetch_id" /\ task[t].dbReady
        /\ RowOf(pictograms, task[t].id) # None
        /\ PathOf(pictograms, task[t].id) = None

\* C30: no request to the origin is retried: once a request of an operation has
\* ended rate-limited, with another failing status or with a transport failure,
\* the operation sends nothing more to the origin; resolve by id sends at most
\* one fetch-by-id request; search sends the broader request only after the
\* best-match request answered with no items.
C30_NoAutomaticRetry ==
    [][\A t \in Tasks :
        LET tr == task[t]
            tn == task'[t]
        IN
        /\ (tn.api > tr.api \/ tn.dl > tr.dl)
            => tr.origin \notin {"too_many_requests", "failed"}
        /\ tn.api > tr.api =>
            CASE tn.op = "byId" -> tn.api = 1
              [] tn.op = "search" ->
                    \/ tn.api = 1
                    \/ tn.api = 2 /\ tr.origin \in {"empty", "not_found"}
              [] OTHER -> tn.api = 1]_vars

\* A search has ended rate-limited on its broader request, its second and last.
C30_Witness ==
    \E t \in Tasks :
        /\ task[t].pc = "done" /\ task[t].op = "search"
        /\ task[t].origin = "too_many_requests" /\ task[t].api = 2

\* C31: the four origin operations (keyword search, fetch-by-id, fetch-newest,
\* keyword list) classify the origin's answer alike: a call whose last request
\* was answered "not found" ends with no match and never with an error, one
\* answered rate-limited ends with the throttling error (BadRequest), and one
\* that failed otherwise ends with Internal.
C31_UniformOriginClassification ==
    \A t \in Tasks :
        LET tr == task[t] IN
        (/\ tr.pc = "done"
         /\ tr.op \in {"search", "byId", "newest", "keywords"}
         /\ tr.api > 0)
        => /\ tr.origin = "too_many_requests" => tr.svc.kind = "BadRequest"
           /\ tr.origin = "failed" => tr.svc.kind = "Internal"
           /\ tr.origin = "not_found" =>
                IF tr.op = "byId" THEN tr.svc.kind = "NotFound"
                ELSE tr.svc = Ok(<<>>)

\* C32: local-first search.  A search that the Local Store answers with at
\* least one match ends there: it has sent no request to the origin, neither
\* for metadata nor for an asset, has written no record and no file, and the
\* step that answers it leaves every record and every file as it was.
C32_LocalHitTouchesNothing ==
    [][\A t \in Tasks :
        LET tr == task[t]
            tn == task'[t]
        IN
        (tn # tr /\ tn.op = "search" /\ tn.pc = "done" /\ tn.hit)
        => /\ tn.api = 0
           /\ tn.dl = 0
           /\ ~tn.wroteRow
           /\ ~tn.wroteFile
           /\ pictograms' = pictograms
           /\ files' = files]_vars

C32_Witness ==
    \E t \in Tasks :
        /\ task[t].op = "search"
        /\ task[t].pc = "done"
        /\ task[t].hit
        /\ task[t].svc.kind = "Ok"
        /\ task[t].svc.val # <<>>
        /\ pictograms # <<>>

\* The ids of a list of result records, and of a list of origin hits.
ResultIds(items) == {items[i].arasaac_id : i \in 1..Len(items)}

HitIds(remote) == {remote[i].id : i \in 1..Len(remote)}

\* C33: a search that found nothing locally and got hits from the origin
\* returns exactly the origin's hits: the set of ids in its result equals the
\* set of ids of the hits.
C33_FallbackReturnsOriginHits ==
    \A t \in Tasks :
        LET tr == task[t] IN
        (/\ tr.op = "search"
         /\ tr.pc = "done"
         /\ ~tr.hit
         /\ tr.remote # <<>>
         /\ tr.svc.kind = "Ok")
        => ResultIds(tr.svc.val) = HitIds(tr.remote)

\* The ids present in the pictograms table.
StoredIds(rows) == {rows[i].arasaac_id : i \in 1..Len(rows)}

UniqueIds(rows) == \A i, j \in 1..Len(rows) : rows[i].arasaac_id = rows[j].arasaac_id => i = j

ShelfEnv == [BookmarkEnv EXCEPT !.store = ProgressStore]

InitShelf == InitWith(ShelfEnv)

SpecShelf == InitShelf /\ [][NextBookmarks]_vars

\* The bookmarks other than the one of (user_id, arasaac_id).
OtherBookmarks(rows, user_id, arasaac_id) ==
    SelectSeq(rows, LAMBDA r : ~SameBookmark(r, user_id, arasaac_id))

\* C35: bookmarks are per user and independent of the cache.  A save, unsave
\* or recordUse by user u for id i leaves every bookmark other than (u, i) as
\* it was, leaves every record and every asset file as it was, and a save is
\* answered Ok, with the bookmark in place, unless the store failed the
\* statement: whether id i is cached plays no part.
C35_BookmarksIsolated ==
    [][\A t \in Tasks :
        LET tr == task[t]
            tn == task'[t]
        IN
        (tn # tr /\ tn.pc = "done" /\ tn.op \in {"save", "unsave", "use"})
        => /\ OtherBookmarks(saved', tn.user, tn.id) = OtherBookmarks(saved, tn.user, tn.id)
           /\ pictograms' = pictograms
           /\ files' = files
           /\ (tn.op = "save" /\ tn.role # "child")
                => /\ tn.svc.kind \in {"Ok", "StoreError"}
                   /\ tn.svc.kind = "Ok" => HasBookmark(saved', tn.user, tn.id)]_vars

\* A save answered Ok for an id the cache has no record of, while the cache
\* holds another id and another user holds a bookmark.
C35_Witness ==
    \E t \in Tasks :
        /\ task[t].op = "save"
        /\ task[t].pc = "done"
        /\ task[t].svc.kind = "Ok"
        /\ task[t].id \notin StoredIds(pictograms)
        /\ pictograms # <<>>
        /\ HasBookmark(saved, task[t].user, task[t].id)
        /\ \E i \in 1..Len(saved) : saved[i].user_id # task[t].user

\* The category hints given to download_pictogram_asset: absent, or a text of
\* at most MaxHint characters.
MaxHint == 3

HintChars == {"A", "a", "1", "-", "_", " ", "."}

HintInputs ==
    {None} \cup {Some(h) : h \in UNION {[1..n -> HintChars] : n \in 0..MaxHint}}

InitSlug ==
    /\ pictograms = <<>>
    /\ files = {}
    /\ \E hint \in HintInputs :
        task = [t \in Tasks |->
                    IF t = "t1"
                    THEN [IdleTask EXCEPT !.op = "slug", !.pc = "slug", !.label = hint]
                    ELSE IdleTask]
    /\ saved = <<>>
    /\ library = {}
    /\ settings = None
    /\ now = 0
    /\ lastActivity = None
    /\ due = 0
    /\ runner = IdleWorker
    /\ env = Faulty

\* download_pictogram_asset:
\* sanitize_segment(category.as_deref().unwrap_or("uncategorized"))
CategorySlugOf(t) ==
    LET tr == task[t]
        category_slug ==
            Ok(<<sanitize_segment(IF tr.label = None THEN S_uncategorized
                                  ELSE Get(tr.label))>>)
    IN
    /\ tr.pc = "slug"
    /\ Upd(t, [tr EXCEPT !.pc = "done", !.svc = category_slug, !.resp = category_slug])
    /\ UNCHANGED <<pictograms, files, saved, library, settings, now, lastActivity, due,
                   runner, env>>

NextSlug == CategorySlugOf("t1")

SpecSlug == InitSlug /\ [][NextSlug]_vars

\* The slug as the claim words it: lower-case the hint, put "-" for every
\* character that is not alphanumeric, "-" or "_", trim the "-" at both ends.
Dashed(s) ==
    [i \in 1..Len(s) |->
        IF IsAsciiAlphanumeric(s[i]) \/ s[i] = "-" \/ s[i] = "_"
        THEN LowerChar(s[i]) ELSE "-"]

SlugChars == {"a", "1", "-", "_"} \cup {S_uncategorized[i] : i \in 1..Len(S_uncategorized)}

\* C36: the slug of a category hint is the lower-cased hint with every
\* character other than alphanumerics, "-" and "_" replaced by "-", trimmed of
\* "-" at both ends, "uncategorized" when that is empty or the hint is absent;
\* it contains only characters of [a-z0-9_-].
C36_Slugification ==
    \A t \in Tasks :
        (task[t].pc = "done" /\ task[t].op = "slug") =>
            LET hint == task[t].label
                slug == task[t].svc.val[1]
                worded == IF hint = None THEN <<>> ELSE TrimDashes(Dashed(Get(hint)))
            IN /\ slug = IF worded = <<>> THEN S_uncategorized ELSE worded
               /\ \A i \in 1..Len(slug) : slug[i] \in SlugChars

\* The part of C36 about the slug's alphabet, taken alone.
SlugAlphabet ==
    \A t \in Tasks :
        (task[t].pc = "done" /\ task[t].op = "slug") =>
            LET slug == task[t].svc.val[1] IN
            /\ slug # <<>>
            /\ \A i \in 1..Len(slug) : slug[i] \in SlugChars

\* The settings row after every provided field of a request has been applied to
\* the row s0, out-of-range values clamped.
AllApplied(s0, body) ==
    [s0 EXCEPT
        !.enabled = IF body.enabled # None THEN Get(body.enabled) ELSE @,
        !.idle_minutes = IF body.idle_minutes # None
                         THEN Clamp(Get(body.idle_minutes), 1, IDLE_MINUTES_MAX) ELSE @,
        !.batch_size = IF body.batch_size # None
                       THEN Clamp(Get(body.batch_size), 1, BATCH_SIZE_MAX) ELSE @]

\* C37: updateSettings is atomic.  After an updateSettings request the settings
\* row has all the provided fields applied or none of them (it is the row as it
\* was, the row as first seeded, or that row with every provided field
\* applied), so that a failure part-way leaves the settings unchanged.
C37_UpdateAllOrNothing ==
    [][\A t \in Tasks :
        LET tr == task[t]
            tn == task'[t]
        IN
        (tn # tr /\ tn.pc = "done" /\ tn.op = "updateSettings")
        => LET s0 == Get(ensure_prefetch_settings_row(settings, env.config))
               body == Get(tn.body)
           IN /\ settings' \in {settings, Some(s0), Some(AllApplied(s0, body))}
              /\ tn.svc.kind = "Ok" => settings' = Some(AllApplied(s0, body))]_vars

\* run_prefetch_now from the request to the answer, with the frame c of its
\* nested calls.
RunNowStep(t, c) ==
    \/ RunNowBegin(t)
    \/ RunNowSeedQuery(t)
    \/ RunNowSeedStep(t)
    \/ RunNowLoad(t)
    \/ RunNowCheck(t, c)
    \/ NestedStep(c)
    \/ RunNowAfterResolve(t, c)
    \/ RunNowRecord(t)
    \/ Return(t)

\* The worker with batches to run beside an administrator who runs batches by
\* hand; nothing fails.
OverlapEnv ==
    [EngineEnv EXCEPT !.netFaults = FALSE, !.fsFaults = FALSE, !.ops = {},
                      !.config = [enabled |-> TRUE, idle_minutes |-> 1, batch_size |-> 1]]

InitOverlap == InitWith(OverlapEnv)

NextOverlap == Advance \/ WorkerStep \/ RunNowStep("t2", "t1")

SpecOverlap == InitOverlap /\ [][NextOverlap]_vars

\* The task is between the start of the batch its runNow request runs and its end.
RunningNow(t) == task[t].op = "runNow" /\ task[t].pc = "batch"

\* C38: at most one prefetch batch is executing at any time: a batch started
\* by runNow never runs while a batch started by a tick, or by another runNow,
\* is running.
C38_OneBatchAtATime ==
    /\ \A t \in Tasks : ~(RunningNow(t) /\ Running)
    /\ \A t1, t2 \in Tasks : (RunningNow(t1) /\ RunningNow(t2)) => t1 = t2

\* A step of the background prefetch: of the worker's loop, of its batch or of
\* the get_or_fetch_by_id the batch calls.
PrefetchStep == runner' # runner \/ task'["w"] # task["w"]

\* C39 (as stated): no step of the background prefetch changes the
\* last-activity timestamp; only foreground route handlers write the clock.
C39_PrefetchNeverWritesClock ==
    [][PrefetchStep => lastActivity' = lastActivity]_vars

\* C39 (amended): no step of the background prefetch changes a last-activity
\* timestamp that has been set, so prefetching never resets the idle time it is
\* gated on; on a clock that nothing has used yet, the worker's read of the
\* idle time initialises it to the current time.
C39_PrefetchKeepsClock ==
    [][PrefetchStep =>
        IF lastActivity # None THEN lastActivity' = lastActivity
        ELSE lastActivity' \in {None, Some(now)}]_vars

\* A batch has fetched from the origin after a request marked activity, and the
\* clock still holds the time of that request.
C39_Witness ==
    /\ runner.outcome = "ran"
    /\ runner.api > 0
    /\ lastActivity # None
    /\ Get(lastActivity) < now
    /\ \E t \in Tasks : task[t].op = "use" /\ task[t].pc = "done"

\* One caller resolving an id in one language and then in another, while files
\* may be removed.
LangEnv == [Faulty EXCEPT !.ops = {"byId"}, !.ids = {1}, !.roles = {"parent"}]

InitLang == InitWith(LangEnv)

NextLang == ByIdStep("t1") \/ RemoveFile

SpecLang == InitLang /\ [][NextLang]_vars

\* C40: the record resolveById(language, id) returns has the normalized
\* requested language, on a cache hit as after an origin fetch, also when the
\* id was cached under another language before.
C40_ResolvedInRequestedLanguage ==
    \A t \in Tasks :
        LET tr == task[t] IN
        (tr.op = "byId" /\ tr.pc = "done" /\ tr.svc.kind = "Ok")
        => tr.svc.val[1].language = normalize_language(tr.language)

====
